---------------------------- MODULE Spec2Model ----------------------------
(***************************************************************************)
(* A model of the opkg package index and dependency resolver (libopkg):    *)
(* the control-stanza field parser (pkg_parse.c), the abstract/concrete    *)
(* package hash (pkg_hash.c) and the resolver (pkg_depends.c, pkg_hash.c). *)
(*                                                                         *)
(* Representation.  An abstract_pkg_t is a record of the function `hash',  *)
(* keyed by its name; a pkg_t is a record of the sequence `heap', and a    *)
(* pkg_t* is its index in `heap' (0 is NULL).  A vector (pkg_vec_t,        *)
(* abstract_pkg_vec_t, a NULL-terminated array) is a sequence; a NULL      *)
(* vector and an empty one are both <<>>, since the code modelled here     *)
(* treats them alike.  A version string is a natural number >= 1 (0 is the *)
(* NULL string), compared numerically.                                     *)
(***************************************************************************)
EXTENDS Integers, Sequences, FiniteSets, TLC

VARIABLES
    hash,      \* conf->pkg_hash: name -> abstract_pkg_t
    heap,      \* every pkg_t linked into the index
    nloaded,   \* stanzas read so far by the loader
    opkg_cli_argv, \* the package names given on the command line
    conf,      \* conf->offline_root and conf->file_hash: path -> pkg_t
    installed_files, \* pkg->installed_files of every pkg_t, once read
    res        \* the last resolver call and what it returned

vars == <<hash, heap, nloaded, opkg_cli_argv, conf, installed_files, res>>

-----------------------------------------------------------------------------
(* Bounds of the model. *)

\* stanzas the loader reads before the resolver is queried
MaxPkgs == 3

\* nesting depth of resolver calls the model follows before giving up.  A
\* call that passes the cycle guard sets one of the two marks of the
\* abstract of a package that has dependencies; the stanzas of the model
\* give dependencies to packages of three names, one of which nothing
\* depends on, so the calls of one query nest at most four deep
MaxDepth == 4

-----------------------------------------------------------------------------
(* Names, architectures and their orders. *)

\* strcmp on package names: the names of the model in lexical order
NameOrder == <<"a", "b", "c", "m", "v">>

NameRank(n) == CHOOSE i \in 1..Len(NameOrder) : NameOrder[i] = n

\* strcmp(x, y) reduced to its sign
strcmp(x, y) ==
    IF x = y THEN 0 ELSE IF NameRank(x) < NameRank(y) THEN -1 ELSE 1

\* the configured architecture table: "all" and "mips" are supported
\* (priority > 0), every other architecture has priority 0
ArchPriority(arch) ==
    IF arch = "all" THEN 1 ELSE IF arch = "mips" THEN 10 ELSE 0

pkg_get_arch_priority(pkg) == ArchPriority(pkg.architecture)

\* pkg_compare_versions reduced to its sign; versions are numbers
pkg_compare_versions(pkg, ref_pkg) ==
    IF pkg.version = ref_pkg.version THEN 0
    ELSE IF pkg.version < ref_pkg.version THEN -1 ELSE 1

\* SF_NONVOLATILE_FLAGS
NONVOLATILE_FLAGS ==
    {"SF_HOLD", "SF_NOPRUNE", "SF_PREFER", "SF_OBSOLETE", "SF_USER"}

-----------------------------------------------------------------------------
(* Vectors. *)

SeqContains(s, x) == \E i \in 1..Len(s) : s[i] = x

abstract_pkg_vec_contains(vec, apkg) == SeqContains(vec, apkg)

abstract_pkg_vec_insert(vec, apkg) == Append(vec, apkg)

pkg_vec_contains(vec, p) == SeqContains(vec, p)

pkg_vec_insert(vec, p) == Append(vec, p)

-----------------------------------------------------------------------------
(* Records as the constructors leave them. *)

abstract_pkg_new ==
    [ pkgs |-> <<>>,
      depended_upon_by |-> <<>>,
      provided_by |-> <<>>,
      replaced_by |-> <<>>,
      dependencies_checked |-> FALSE,
      pre_dependencies_checked |-> FALSE,
      state_status |-> "SS_NOT_INSTALLED",
      state_flag |-> {} ]

pkg_new ==
    [ name |-> "",
      version |-> 0,
      architecture |-> "",
      state_want |-> "SW_UNKNOWN",
      state_flag |-> {},
      state_status |-> "SS_NOT_INSTALLED",
      parent |-> "",
      provided_by_hand |-> FALSE,
      provides |-> <<>>,
      replaces |-> <<>>,
      depends |-> <<>>,
      conflicts |-> <<>> ]

ensure_abstract_pkg_by_name(h, pkg_name) ==
    IF pkg_name \in DOMAIN h THEN h ELSE h @@ (pkg_name :> abstract_pkg_new)

-----------------------------------------------------------------------------
(* The text of a control stanza.  A field line is a record naming the     *)
(* field and carrying its value as the tokens strtok would cut it into:   *)
(* a dependency list is a sequence of compounds, a compound a sequence of *)
(* atoms, an atom the text NAME [ "(" OP VERSION ")" ] [ "*" ] with OP    *)
(* the operator as written ("" when there is none) and ver = 0 when there *)
(* is no parenthesis.                                                      *)

Atom(name, op, ver) == [name |-> name, op |-> op, ver |-> ver, star |-> FALSE]

Star(name) == [name |-> name, op |-> "", ver |-> 0, star |-> TRUE]

NoLine ==
    [ f |-> "", name |-> "", num |-> 0, deps |-> <<>>, names |-> <<>>,
      want |-> "", flag |-> {}, status |-> "" ]

PackageL(n) == [NoLine EXCEPT !.f = "Package", !.name = n]

VersionL(v) == [NoLine EXCEPT !.f = "Version", !.num = v]

ArchitectureL(a) == [NoLine EXCEPT !.f = "Architecture", !.name = a]

DepL(f, deps) == [NoLine EXCEPT !.f = f, !.deps = deps]

NamesL(f, names) == [NoLine EXCEPT !.f = f, !.names = names]

StatusL(w, fl, s) ==
    [NoLine EXCEPT !.f = "Status", !.want = w, !.flag = fl, !.status = s]

-----------------------------------------------------------------------------
(* pkg_depends.c: the dependency-list parser. *)

\* the operator token of an atom, as parseDepends reads it
ConstraintOfToken(op) ==
    IF op = "<<" THEN "EARLIER"
    ELSE IF op = "<=" THEN "EARLIER_EQUAL"
    ELSE IF op = ">=" THEN "LATER_EQUAL"
    ELSE IF op = ">>" THEN "LATER"
    ELSE IF op = "=" THEN "EQUAL"
    ELSE IF op = "<" THEN "EARLIER_EQUAL"
    ELSE IF op = ">" THEN "LATER_EQUAL"
    ELSE "NONE"

\* one compound: its type (GREEDY_DEPEND when an atom carries "*") and its
\* possibilities; every named abstract is created in the hash
parseDepends(h, item, type) ==
    [ cd |->
        [ type |-> IF \E i \in 1..Len(item) : item[i].star
                   THEN "GREEDY_DEPEND" ELSE type,
          possibilities |->
            [ i \in 1..Len(item) |->
                [ pkg |-> item[i].name,
                  constraint |-> IF item[i].ver > 0
                                 THEN ConstraintOfToken(item[i].op)
                                 ELSE "NONE",
                  version |-> item[i].ver ] ] ],
      h |-> h @@ [ n \in {item[i].name : i \in 1..Len(item)} \ DOMAIN h
                     |-> abstract_pkg_new ] ]

RECURSIVE parse_deplist_from(_, _, _, _, _)
parse_deplist_from(pkg, h, type, list, k) ==
    IF k > Len(list) THEN [pkg |-> pkg, h |-> h]
    ELSE LET r == parseDepends(h, list[k], type)
             p == IF type = "CONFLICTS"
                  THEN [pkg EXCEPT !.conflicts = Append(@, r.cd)]
                  ELSE [pkg EXCEPT !.depends = Append(@, r.cd)]
         IN  parse_deplist_from(p, r.h, type, list, k + 1)

\* appends the compounds of `list' to PKG_DEPENDS, or to PKG_CONFLICTS
parse_deplist(pkg, h, type, list) ==
    IF type \in {"DEPEND", "PREDEPEND", "RECOMMEND", "SUGGEST",
                 "GREEDY_DEPEND", "CONFLICTS"}
    THEN parse_deplist_from(pkg, h, type, list, 1)
    ELSE [pkg |-> pkg, h |-> h]

\* pkg->conflicts names conflictee
pkg_conflicts_abstract(pkg, conflictee) ==
    \E i \in 1..Len(pkg.conflicts) :
        \E j \in 1..Len(pkg.conflicts[i].possibilities) :
            pkg.conflicts[i].possibilities[j].pkg = conflictee

\* the places <<i, j>> of the atoms of a compound list
AtomsOf(deps) ==
    UNION { { <<i, j>> : j \in 1..Len(deps[i].possibilities) } :
              i \in 1..Len(deps) }

\* the abstracts a compound list points at
Targets(deps) == { deps[ij[1]].possibilities[ij[2]].pkg : ij \in AtomsOf(deps) }

-----------------------------------------------------------------------------
(* pkg_depends.c: Provides and Replaces. *)

\* state_flag |= flags on every abstract of `names'
FlagAbstracts(h, names, flags) ==
    [ n \in DOMAIN h |->
        IF n \in names THEN [h[n] EXCEPT !.state_flag = @ \cup flags]
        ELSE h[n] ]

flag_related_packages(pkg, h, state_flags) ==
    FlagAbstracts(h, Targets(pkg.depends) \cup Targets(pkg.conflicts),
                  state_flags)

\* an init_providelist that forgets the self-provide
SelfProvideSkipped(h, name) == h

\* the self-provide of init_providelist: the package's abstract enters its
\* own provided_by, once
SelfProvide(h, name) ==
    IF abstract_pkg_vec_contains(h[name].provided_by, name) THEN h
    ELSE [h EXCEPT ![name].provided_by = abstract_pkg_vec_insert(@, name)]

\* `counted' is whether the caller passes a count (parse_providelist does,
\* hash_insert_pkg passes NULL)
init_providelist(pkg, h, counted) ==
    LET h0 == ensure_abstract_pkg_by_name(h, pkg.name)
        fresh == pkg.provides = <<>>
        p1 == IF fresh THEN [pkg EXCEPT !.provides = <<pkg.name>>] ELSE pkg
        h1 == IF fresh THEN SelfProvide(h0, pkg.name)
              ELSE IF counted /\ "SF_NEED_DETAIL" \in pkg.state_flag
              THEN FlagAbstracts(h0,
                       {pkg.provides[i] : i \in 1..Len(pkg.provides)},
                       {"SF_NEED_DETAIL"})
              ELSE h0
    IN  [pkg |-> p1, h |-> flag_related_packages(p1, h1, {"SF_NEED_DETAIL"})]

RECURSIVE parse_providelist_from(_, _, _, _)
parse_providelist_from(pkg, h, list, k) ==
    IF k > Len(list) THEN [pkg |-> pkg, h |-> h]
    ELSE LET item == list[k]
             h1 == ensure_abstract_pkg_by_name(h, item)
             h2 == IF "SF_NEED_DETAIL" \in h1[item].state_flag
                   THEN FlagAbstracts(h1, {pkg.name}, {"SF_NEED_DETAIL"})
                   ELSE h1
             h3 == IF abstract_pkg_vec_contains(h2[item].provided_by, pkg.name)
                   THEN h2
                   ELSE [h2 EXCEPT ![item].provided_by =
                                       abstract_pkg_vec_insert(@, pkg.name)]
         IN  parse_providelist_from(
                 [pkg EXCEPT !.provides = Append(@, item)], h3, list, k + 1)

parse_providelist(pkg, h, list) ==
    LET r == init_providelist(pkg, h, TRUE)
    IN  parse_providelist_from(r.pkg, r.h, list, 1)

RECURSIVE parse_replacelist_from(_, _, _, _, _)
parse_replacelist_from(pkg, h, list, k, replaces) ==
    IF k > Len(list)
    THEN [ pkg |-> IF replaces = <<>> THEN pkg
                   ELSE [pkg EXCEPT !.replaces = replaces],
           h |-> h ]
    ELSE LET item == list[k]
             h1 == ensure_abstract_pkg_by_name(h, item)
             h2 == IF "SF_NEED_DETAIL" \in pkg.state_flag
                   THEN FlagAbstracts(h1, {item}, {"SF_NEED_DETAIL"})
                   ELSE h1
             \* a package that both replaces and conflicts old_abpkg
             h3 == IF pkg_conflicts_abstract(pkg, item)
                      /\ ~abstract_pkg_vec_contains(h2[item].replaced_by,
                                                    pkg.name)
                   THEN [h2 EXCEPT ![item].replaced_by =
                                       abstract_pkg_vec_insert(@, pkg.name)]
                   ELSE h2
         IN  parse_replacelist_from(pkg, h3, list, k + 1,
                                    Append(replaces, item))

parse_replacelist(pkg, h, list) ==
    LET h0 == ensure_abstract_pkg_by_name(h, pkg.name)
        h1 == [h0 EXCEPT ![pkg.name].provided_by =
                             abstract_pkg_vec_insert(@, pkg.name)]
    IN  parse_replacelist_from(pkg, h1, list, 1, <<>>)

-----------------------------------------------------------------------------
(* pkg_parse.c: one field line into the package record being read. *)

parse_status(pkg, line) ==
    [pkg EXCEPT !.state_want = line.want,
                !.state_flag = @ \cup line.flag,
                !.state_status = line.status]

parse_version(pkg, line) == [pkg EXCEPT !.version = line.num]

pkg_parse_line(pkg, h, line) ==
    IF line.f = "Architecture"
    THEN [pkg |-> [pkg EXCEPT !.architecture = line.name], h |-> h]
    ELSE IF line.f = "Conflicts"
    THEN parse_deplist(pkg, h, "CONFLICTS", line.deps)
    ELSE IF line.f = "Depends"
    THEN parse_deplist(pkg, h, "DEPEND", line.deps)
    ELSE IF line.f = "Package"
    THEN [ pkg |-> [pkg EXCEPT
                      !.name = line.name,
                      !.state_flag =
                          IF line.name \in DOMAIN h
                             /\ "SF_NEED_DETAIL" \in h[line.name].state_flag
                          THEN @ \cup {"SF_NEED_DETAIL"} ELSE @],
           h |-> h ]
    ELSE IF line.f = "Provides"
    THEN parse_providelist(pkg, h, line.names)
    ELSE IF line.f = "Pre-Depends"
    THEN parse_deplist(pkg, h, "PREDEPEND", line.deps)
    ELSE IF line.f = "Recommends"
    THEN parse_deplist(pkg, h, "RECOMMEND", line.deps)
    ELSE IF line.f = "Replaces"
    THEN parse_replacelist(pkg, h, line.names)
    ELSE IF line.f = "Status"
    THEN [pkg |-> parse_status(pkg, line), h |-> h]
    ELSE IF line.f = "Suggests"
    THEN parse_deplist(pkg, h, "SUGGEST", line.deps)
    ELSE IF line.f = "Version"
    THEN [pkg |-> parse_version(pkg, line), h |-> h]
    ELSE [pkg |-> pkg, h |-> h]

\* parse_from_stream_nomalloc over the lines of one stanza
RECURSIVE parse_stanza_from(_, _, _, _)
parse_stanza_from(pkg, h, lines, k) ==
    IF k > Len(lines) THEN [pkg |-> pkg, h |-> h]
    ELSE LET r == pkg_parse_line(pkg, h, lines[k])
         IN  parse_stanza_from(r.pkg, r.h, lines, k + 1)

parse_stanza(pkg, h, lines) == parse_stanza_from(pkg, h, lines, 1)

-----------------------------------------------------------------------------
(* pkg_hash.c: linking a package record into the index. *)

\* a count that looks at the DEPEND compounds only
DependCountHard(deps, n) ==
    Cardinality({ ij \in AtomsOf(deps) :
        /\ deps[ij[1]].type = "DEPEND"
        /\ deps[ij[1]].possibilities[ij[2]].pkg = n })

\* how many atoms of the DEPEND, PREDEPEND and RECOMMEND compounds of
\* `deps' point at the abstract n
DependCount(deps, n) ==
    Cardinality({ ij \in AtomsOf(deps) :
        /\ deps[ij[1]].type \in {"PREDEPEND", "DEPEND", "RECOMMEND"}
        /\ deps[ij[1]].possibilities[ij[2]].pkg = n })

\* ab_pkg is appended to depended_upon_by once per such atom
buildDependedUponBy(pkg, ab_pkg, h) ==
    [ n \in DOMAIN h |->
        [h[n] EXCEPT !.depended_upon_by =
            @ \o [k \in 1..DependCount(pkg.depends, n) |-> ab_pkg]] ]

\* the record left in the vector when the same (name, version,
\* architecture) is read again: non-null fields of the new record win, the
\* non-volatile flags of the old one are kept
pkg_merge(oldpkg, newpkg) ==
    [ oldpkg EXCEPT
        !.state_want = IF newpkg.state_want # "SW_UNKNOWN"
                       THEN newpkg.state_want ELSE @,
        !.state_status = IF newpkg.state_status \in {"SS_INSTALLED", "SS_UNPACKED"}
                         THEN newpkg.state_status ELSE @,
        !.state_flag = newpkg.state_flag \cup (@ \cap NONVOLATILE_FLAGS),
        !.provides = IF newpkg.provides # <<>> THEN newpkg.provides ELSE @,
        !.replaces = IF newpkg.replaces # <<>> THEN newpkg.replaces ELSE @,
        !.depends = IF newpkg.depends # <<>> THEN newpkg.depends ELSE @,
        !.conflicts = IF newpkg.conflicts # <<>> THEN newpkg.conflicts ELSE @ ]

\* the slot of a record with the same name, version and architecture, or 0
MergeSlot(hp, vec, pkg) ==
    LET same == { i \in 1..Len(vec) :
                    /\ hp[vec[i]].name = pkg.name
                    /\ pkg_compare_versions(pkg, hp[vec[i]]) = 0
                    /\ hp[vec[i]].architecture = pkg.architecture }
    IN  IF same = {} THEN 0 ELSE vec[CHOOSE i \in same : \A k \in same : i <= k]

\* returns the heap and the abstract's version vector
pkg_vec_insert_merge(hp, vec, pkg, set_status) ==
    LET slot == MergeSlot(hp, vec, pkg)
    IN  IF slot = 0
        THEN [hp |-> Append(hp, pkg), vec |-> pkg_vec_insert(vec, Len(hp) + 1)]
        ELSE [hp |-> [hp EXCEPT ![slot] = pkg_merge(@, pkg)], vec |-> vec]

hash_insert_pkg(pkg, set_status, h, hp) ==
    LET ab_pkg == pkg.name
        h0 == ensure_abstract_pkg_by_name(h, ab_pkg)
        h1 == IF pkg.state_status \in {"SS_INSTALLED", "SS_UNPACKED"}
              THEN [h0 EXCEPT ![ab_pkg].state_status = pkg.state_status]
              ELSE h0
        r == init_providelist(pkg, h1, FALSE)
        h2 == buildDependedUponBy(r.pkg, ab_pkg, r.h)
        m == pkg_vec_insert_merge(hp, h2[ab_pkg].pkgs,
                                  [r.pkg EXCEPT !.parent = ab_pkg], set_status)
    IN  [h |-> [h2 EXCEPT ![ab_pkg].pkgs = m.vec], hp |-> m.hp]

\* one turn of the loop of pkg_hash_add_from_file: a stanza is read into a
\* new record, which is dropped when it has no name, is not flagged
\* SF_NEED_DETAIL or has no supported architecture, and linked otherwise
add_from_file_stanza(h, hp, lines, is_status_file, state_flags) ==
    LET r == parse_stanza([pkg_new EXCEPT !.state_flag = state_flags], h, lines)
    IN  IF r.pkg.name = "" THEN [h |-> r.h, hp |-> hp]
        ELSE IF "SF_NEED_DETAIL" \notin r.pkg.state_flag
        THEN [h |-> r.h, hp |-> hp]
        ELSE IF r.pkg.architecture = "" \/ pkg_get_arch_priority(r.pkg) = 0
        THEN [h |-> r.h, hp |-> hp]
        ELSE hash_insert_pkg(r.pkg, is_status_file, r.h, hp)

-----------------------------------------------------------------------------
(* pkg_hash.c: the loaders.  A file is a record: whether file_exists finds *)
(* it, whether fopen opens it, and the reads the stanza parser makes of    *)
(* it until feof: each read is the lines of a stanza that reached          *)
(* pkg_parse_line and the value parse_from_stream_nomalloc returned (0, or *)
(* -1 for a fatal stream error).  A loader returns the index it leaves,    *)
(* its return value ret, and err: whether a stream it drove failed to open *)
(* or had the parser return -1.                                            *)

\* passes of the loop of pkg_hash_load_package_details the model follows
MaxPasses == 6

\* lines 98-146: the loop, from the k-th read on
RECURSIVE add_from_file_loop(_, _, _, _, _, _, _)
add_from_file_loop(h, hp, reads, k, is_status_file, state_flags, err) ==
    IF k > Len(reads) THEN [h |-> h, hp |-> hp, ret |-> 0, err |-> err]
    ELSE IF parse_stanza([pkg_new EXCEPT !.state_flag = state_flags],
                         h, reads[k].lines).pkg.name = ""
    THEN \* lines 107-121: ret = 1, whatever the parser returned
         add_from_file_loop(
             parse_stanza([pkg_new EXCEPT !.state_flag = state_flags],
                          h, reads[k].lines).h,
             hp, reads, k + 1, is_status_file, state_flags,
             err \/ reads[k].ret = -1)
    ELSE IF reads[k].ret = -1
    THEN \* lines 112-116: break
         [ h |-> parse_stanza([pkg_new EXCEPT !.state_flag = state_flags],
                              h, reads[k].lines).h,
           hp |-> hp, ret |-> -1, err |-> TRUE ]
    ELSE add_from_file_loop(
             add_from_file_stanza(h, hp, reads[k].lines, is_status_file,
                                  state_flags).h,
             add_from_file_stanza(h, hp, reads[k].lines, is_status_file,
                                  state_flags).hp,
             reads, k + 1, is_status_file, state_flags, err)

pkg_hash_add_from_file(h, hp, file, is_status_file, state_flags) ==
    IF ~file.opens THEN [h |-> h, hp |-> hp, ret |-> -1, err |-> TRUE]
    ELSE add_from_file_loop(h, hp, file.reads, 1, is_status_file,
                            state_flags, FALSE)

\* lines 170-183, 199-208: the list files (status files) from the i-th on;
\* a is what pkg_hash_add_from_file returned for the i-th
RECURSIVE load_files_from(_, _, _, _, _, _, _)
load_file_done(files, i, is_status_file, state_flags, err, a) ==
    IF a.ret # 0 THEN [h |-> a.h, hp |-> a.hp, ret |-> -1, err |-> err \/ a.err]
    ELSE load_files_from(a.h, a.hp, files, i + 1, is_status_file,
                         state_flags, err \/ a.err)

load_files_from(h, hp, files, i, is_status_file, state_flags, err) ==
    IF i > Len(files) THEN [h |-> h, hp |-> hp, ret |-> 0, err |-> err]
    ELSE IF ~files[i].exists
    THEN load_files_from(h, hp, files, i + 1, is_status_file, state_flags, err)
    ELSE load_file_done(files, i, is_status_file, state_flags, err,
             pkg_hash_add_from_file(h, hp, files[i], is_status_file,
                                    state_flags))

\* pkg_src_list stands for conf->pkg_src_list, each source by its list file
pkg_hash_load_feeds(h, hp, pkg_src_list, state_flags) ==
    load_files_from(h, hp, pkg_src_list, 1, FALSE, state_flags, FALSE)

\* pkg_dest_list stands for conf->pkg_dest_list, each by its status file
pkg_hash_load_status_files(h, hp, pkg_dest_list) ==
    load_files_from(h, hp, pkg_dest_list, 1, TRUE, {"SF_NEED_DETAIL"}, FALSE)

\* a sweep that counts the marked abstracts again
NeedDetailMarkedToo(h) ==
    { n \in DOMAIN h : "SF_NEED_DETAIL" \in h[n].state_flag }

\* the abstracts pkg_hash_load_package_details_helper counts: flagged
\* SF_NEED_DETAIL and not yet SF_MARKED
NeedDetailUnmarked(h) ==
    { n \in DOMAIN h : "SF_NEED_DETAIL" \in h[n].state_flag
                        /\ "SF_MARKED" \notin h[n].state_flag }

\* lines 238-247: f is what pkg_hash_load_feeds returned in this pass; its
\* return value is not looked at.  counted lists, sweep by sweep, the
\* abstracts the helper counted
RECURSIVE load_package_details_loop(_, _, _, _, _, _)
load_package_details_pass(pkg_src_list, pass, err, counted, f) ==
    IF NeedDetailUnmarked(f.h) # {}
    THEN load_package_details_loop(
             FlagAbstracts(f.h, NeedDetailUnmarked(f.h), {"SF_MARKED"}),
             f.hp, pkg_src_list, pass + 1, err \/ f.err,
             Append(counted, NeedDetailUnmarked(f.h)))
    ELSE [ h |-> f.h, hp |-> f.hp, ret |-> 0, err |-> err \/ f.err,
           passes |-> pass, ovf |-> FALSE, counted |-> Append(counted, {}) ]

load_package_details_loop(h, hp, pkg_src_list, pass, err, counted) ==
    IF pass > MaxPasses
    THEN [ h |-> h, hp |-> hp, ret |-> 0, err |-> err, passes |-> pass,
           ovf |-> TRUE, counted |-> counted ]
    ELSE load_package_details_pass(pkg_src_list, pass, err, counted,
             pkg_hash_load_feeds(h, hp, pkg_src_list, {}))

pkg_hash_load_package_details(h, hp, pkg_src_list) ==
    load_package_details_loop(h, hp, pkg_src_list, 1, FALSE, << >>)

-----------------------------------------------------------------------------
(* pkg_depends.c: constraints, vectors of packages, the unresolved list. *)

version_constraints_satisfied(depends, pkg) ==
    IF depends.constraint = "NONE" THEN TRUE
    ELSE LET temp == parse_version(pkg_new, [NoLine EXCEPT !.num = depends.version])
             comparison == pkg_compare_versions(pkg, temp)
         IN  IF depends.constraint = "EARLIER" /\ comparison < 0 THEN TRUE
             ELSE IF depends.constraint = "LATER" /\ comparison > 0 THEN TRUE
             ELSE IF comparison = 0 THEN TRUE
             ELSE IF depends.constraint = "LATER_EQUAL" /\ comparison >= 0 THEN TRUE
             ELSE IF depends.constraint = "EARLIER_EQUAL" /\ comparison <= 0 THEN TRUE
             ELSE FALSE

pkg_installed_and_constraint_satisfied(pkg, cdata) ==
    /\ pkg.state_status \in {"SS_INSTALLED", "SS_UNPACKED"}
    /\ version_constraints_satisfied(cdata, pkg)

pkg_constraint_satisfied(pkg, cdata) == version_constraints_satisfied(cdata, pkg)

pkg_name_constraint_fcn(pkg, cdata) == strcmp(pkg.name, cdata) = 0

\* constraint_fcn(pkg, cdata) for the three callbacks the resolver passes
constraint_fcn(fcn, pkg, cdata) ==
    IF fcn = "pkg_installed_and_constraint_satisfied"
    THEN pkg_installed_and_constraint_satisfied(pkg, cdata)
    ELSE IF fcn = "pkg_constraint_satisfied"
    THEN pkg_constraint_satisfied(pkg, cdata)
    ELSE pkg_name_constraint_fcn(pkg, cdata)

\* vec holds a record of the same name, version and architecture
is_pkg_in_pkg_vec(vec, p) ==
    \E i \in 1..Len(vec) :
        /\ strcmp(heap[p].name, heap[vec[i]].name) = 0
        /\ pkg_compare_versions(heap[p], heap[vec[i]]) = 0
        /\ heap[p].architecture = heap[vec[i]].architecture

is_pkg_a_replaces(pkg_scout, pkg) ==
    \E i \in 1..Len(pkg.replaces) : strcmp(pkg_scout.name, pkg.replaces[i]) = 0

constraint_to_str(c) ==
    IF c = "EARLIER" THEN "< "
    ELSE IF c = "EARLIER_EQUAL" THEN "<= "
    ELSE IF c = "EQUAL" THEN "= "
    ELSE IF c = "LATER_EQUAL" THEN ">= "
    ELSE IF c = "LATER" THEN "> "
    ELSE ""

RECURSIVE depend_str_from(_, _)
depend_str_from(poss, i) ==
    IF i > Len(poss) THEN ""
    ELSE (IF i # 1 THEN " | " ELSE "")
         \o poss[i].pkg
         \o (IF poss[i].version # 0
             THEN " (" \o constraint_to_str(poss[i].constraint)
                       \o ToString(poss[i].version) \o ")"
             ELSE "")
         \o depend_str_from(poss, i + 1)

\* the printable string of pkg's idx-th dependency (idx counts from 1 here)
pkg_depend_str(pkg, idx) == depend_str_from(pkg.depends[idx].possibilities, 1)

\* an entry of the unresolved list is the string; the package and the index
\* of the compound it was printed from ride along
add_unresolved_dep(p, the_lost, ref_ndx) ==
    Append(the_lost,
           [ str |-> pkg_depend_str(heap[p], ref_ndx),
             pkg |-> p, ndx |-> ref_ndx ])

merge_unresolved(oldstuff, newstuff) ==
    IF newstuff = <<>> THEN oldstuff ELSE oldstuff \o newstuff

-----------------------------------------------------------------------------
(* pkg_hash.c: the choice among the matching packages (the part of        *)
(* pkg_hash_fetch_best_installation_candidate after the providers have    *)
(* been gathered).                                                         *)

\* pkg_name_version_and_architecture_compare reduced to its sign
pkg_name_version_and_architecture_compare(a, b) ==
    IF strcmp(a.name, b.name) # 0 THEN strcmp(a.name, b.name)
    ELSE IF pkg_compare_versions(a, b) # 0 THEN pkg_compare_versions(a, b)
    ELSE IF pkg_get_arch_priority(a) < pkg_get_arch_priority(b) THEN -1
    ELSE IF pkg_get_arch_priority(a) > pkg_get_arch_priority(b) THEN 1
    ELSE 0

RECURSIVE SortInsert(_, _)
SortInsert(sorted, p) ==
    IF sorted = <<>> THEN <<p>>
    ELSE IF pkg_name_version_and_architecture_compare(heap[p], heap[Head(sorted)]) < 0
    THEN <<p>> \o sorted
    ELSE <<Head(sorted)>> \o SortInsert(Tail(sorted), p)

RECURSIVE pkg_vec_sort(_)
pkg_vec_sort(vec) ==
    IF vec = <<>> THEN <<>>
    ELSE SortInsert(pkg_vec_sort(SubSeq(vec, 1, Len(vec) - 1)), vec[Len(vec)])

\* a score that does not look at the command line
ScoreNoArgv(matching, apkg) ==
    1 + (IF strcmp(matching.name, apkg) = 0 THEN 1 ELSE 0)

\* the score of a match that passes constraint_fcn
Score(matching, apkg) ==
    1 + (IF strcmp(matching.name, apkg) = 0 THEN 1 ELSE 0)
      + (IF \E j \in 1..Len(opkg_cli_argv) : matching.name = opkg_cli_argv[j]
         THEN 1 ELSE 0)

\* a scoring pass in which a tie leaves the earlier match in place
score_not_higher(score, good_pkg_score) == score <= good_pkg_score

\* line 430: the match is passed over
score_too_low(score, good_pkg_score) == score < good_pkg_score

\* the loop that picks good_pkg_by_name
RECURSIVE good_pkg_loop(_, _, _, _, _, _, _)
good_pkg_loop(matching_pkgs, i, good_pkg_by_name, good_pkg_score, apkg, fcn, cdata) ==
    IF i > Len(matching_pkgs) THEN good_pkg_by_name
    ELSE LET matching == matching_pkgs[i]
         IN  IF ~constraint_fcn(fcn, heap[matching], cdata)
             THEN good_pkg_loop(matching_pkgs, i + 1, good_pkg_by_name,
                                good_pkg_score, apkg, fcn, cdata)
             ELSE IF score_too_low(Score(heap[matching], apkg), good_pkg_score)
             THEN good_pkg_loop(matching_pkgs, i + 1, good_pkg_by_name,
                                good_pkg_score, apkg, fcn, cdata)
             ELSE IF heap[matching].provided_by_hand
             THEN matching
             ELSE good_pkg_loop(matching_pkgs, i + 1, matching,
                                Score(heap[matching], apkg), apkg, fcn, cdata)

\* the element of vec at the last index of S, or 0 (NULL) when S is empty
LastOf(vec, S) ==
    IF S = {} THEN 0 ELSE vec[CHOOSE i \in S : \A k \in S : k <= i]

\* held_pkg: the last match flagged SF_HOLD or SF_PREFER
HeldPkg(matching_pkgs) ==
    LastOf(matching_pkgs,
           { i \in 1..Len(matching_pkgs) :
               heap[matching_pkgs[i]].state_flag \cap {"SF_HOLD", "SF_PREFER"} # {} })

\* latest_installed_parent: the last match whose parent is installed or
\* unpacked
LatestInstalledParent(h, matching_pkgs) ==
    LastOf(matching_pkgs,
           { i \in 1..Len(matching_pkgs) :
               h[heap[matching_pkgs[i]].parent].state_status
                   \in {"SS_INSTALLED", "SS_UNPACKED"} })

\* the first match of the highest architecture priority
PriorizedMatching(matching_pkgs) ==
    LET S == { i \in 1..Len(matching_pkgs) :
                 /\ pkg_get_arch_priority(heap[matching_pkgs[i]]) > 0
                 /\ \A k \in 1..Len(matching_pkgs) :
                      /\ pkg_get_arch_priority(heap[matching_pkgs[k]])
                           <= pkg_get_arch_priority(heap[matching_pkgs[i]])
                      /\ (k < i =>
                            pkg_get_arch_priority(heap[matching_pkgs[k]])
                              < pkg_get_arch_priority(heap[matching_pkgs[i]])) }
    IN  IF S = {} THEN 0 ELSE matching_pkgs[CHOOSE i \in S : TRUE]

\* lines 407-522: matching_pkgs is not empty
choose_candidate(h, apkg, fcn, cdata, quiet, matching_pkgs0, nmatching) ==
    LET matching_pkgs == IF Len(matching_pkgs0) > 1
                         THEN pkg_vec_sort(matching_pkgs0) ELSE matching_pkgs0
        good_pkg_by_name == good_pkg_loop(matching_pkgs, 1, 0, 0, apkg, fcn, cdata)
        held_pkg == HeldPkg(matching_pkgs)
        latest_installed_parent == LatestInstalledParent(h, matching_pkgs)
        latest_matching == matching_pkgs[Len(matching_pkgs)]
        priorized_matching ==
            IF good_pkg_by_name = 0 /\ held_pkg = 0 /\ latest_installed_parent = 0
               /\ nmatching > 1 /\ ~quiet
            THEN PriorizedMatching(matching_pkgs) ELSE 0
    IN  IF good_pkg_by_name # 0 THEN good_pkg_by_name
        ELSE IF held_pkg # 0 THEN held_pkg
        ELSE IF latest_installed_parent # 0 THEN latest_installed_parent
        ELSE IF priorized_matching # 0 THEN priorized_matching
        ELSE IF nmatching > 1 THEN 0
        ELSE latest_matching

-----------------------------------------------------------------------------
(* The resolver proper.  The functions below call one another; each takes *)
(* the world w it runs in, [h: the hash with its traversal marks, ovf:    *)
(* whether a call was cut short], and returns the world it leaves.  d is  *)
(* the nesting depth of the call: a call deeper than MaxDepth is not      *)
(* followed and sets ovf.                                                  *)

RECURSIVE pkg_hash_fetch_unsatisfied_dependencies(_, _, _, _, _)
RECURSIVE foreach_dependency(_, _, _, _, _, _, _)
RECURSIVE greedy_loop(_, _, _, _, _, _)
RECURSIVE installed_loop(_, _, _, _)
RECURSIVE uninstalled_loop(_, _, _, _)
RECURSIVE pkg_hash_check_unresolved(_, _, _)
RECURSIVE pkg_hash_fetch_best_installation_candidate(_, _, _, _, _, _)
RECURSIVE providers_loop(_, _, _, _, _, _, _)
RECURSIVE versions_loop(_, _, _, _, _, _)

\* the traversal mark the call looks at
Checked(h, ab_pkg, pre_check) ==
    IF pre_check THEN h[ab_pkg].pre_dependencies_checked
    ELSE h[ab_pkg].dependencies_checked

\* a guard that leaves a trace in the abstract's flags as well
SetCheckedAndFlagged(h, ab_pkg, pre_check) ==
    IF pre_check
    THEN [h EXCEPT ![ab_pkg].pre_dependencies_checked = TRUE,
                   ![ab_pkg].state_flag = @ \cup {"SF_MARKED"}]
    ELSE [h EXCEPT ![ab_pkg].dependencies_checked = TRUE,
                   ![ab_pkg].state_flag = @ \cup {"SF_MARKED"}]

SetChecked(h, ab_pkg, pre_check) ==
    IF pre_check THEN [h EXCEPT ![ab_pkg].pre_dependencies_checked = TRUE]
    ELSE [h EXCEPT ![ab_pkg].dependencies_checked = TRUE]

RECURSIVE Concat(_)
Concat(ss) == IF ss = <<>> THEN <<>> ELSE Head(ss) \o Concat(Tail(ss))

\* the packages the loops j, l, k of a GREEDY_DEPEND compound visit, in order
GreedyScouts(h, cd) ==
    Concat([ j \in 1..Len(cd.possibilities) |->
        Concat([ l \in 1..Len(h[cd.possibilities[j].pkg].provided_by) |->
            h[h[cd.possibilities[j].pkg].provided_by[l]].pkgs ]) ])

\* the world a top-level call starts in; returns and greedy are records
\* of what the calls did: the value each call of
\* pkg_hash_fetch_unsatisfied_dependencies returned beside the length of
\* its vector, and what each probe of a GREEDY_DEPEND scout found
World(h) == [h |-> h, ovf |-> FALSE, returns |-> << >>, greedy |-> << >>]

\* an early return that claims one entry
fetch_one(unsatisfied, w) ==
    [ w |-> [w EXCEPT !.returns =
                 Append(@, [rc |-> 1, len |-> Len(unsatisfied)])],
      unsatisfied |-> unsatisfied, unresolved |-> <<>>, rc |-> 1 ]

\* what the function returns when it returns early: nothing new, and 0
\* whatever the vector holds
fetch_nothing(unsatisfied, w) ==
    [ w |-> [w EXCEPT !.returns =
                 Append(@, [rc |-> 0, len |-> Len(unsatisfied)])],
      unsatisfied |-> unsatisfied, unresolved |-> <<>>, rc |-> 0 ]

\* a resolver without the cycle guard
already_checked_never(h, ab_pkg, pre_check) == FALSE

\* the cycle guard, lines 78-90: has this abstract been visited?
already_checked(h, ab_pkg, pre_check) == Checked(h, ab_pkg, pre_check)

\* lines 56-97: the entry, up to the loop over the dependencies
pkg_hash_fetch_unsatisfied_dependencies(p, unsatisfied, pre_check, w, d) ==
    IF d > MaxDepth THEN fetch_nothing(unsatisfied, [w EXCEPT !.ovf = TRUE])
    ELSE IF heap[p].parent = "" THEN fetch_nothing(unsatisfied, w)
    ELSE IF already_checked(w.h, heap[p].parent, pre_check)
    THEN fetch_nothing(unsatisfied, w)
    ELSE IF heap[p].depends = <<>>
    THEN fetch_nothing(unsatisfied,
                       [w EXCEPT !.h = SetChecked(@, heap[p].parent, pre_check)])
    ELSE foreach_dependency(p, 1, unsatisfied, <<>>, pre_check,
             [w EXCEPT !.h = SetChecked(@, heap[p].parent, pre_check)], d)

\* a probe that is always taken to have succeeded
greedy_ok_always(r) == TRUE

\* lines 137-150: the probe found nothing unresolved and nothing left to
\* install
greedy_ok(r) ==
    /\ r.unresolved = <<>>
    /\ \A m \in 1..r.rc : heap[r.unsatisfied[m]].state_want = "SW_INSTALL"

\* the probe of the scout, started in the world w0 with the vector
\* `before', returned r and left the vector `after'
Probed(r, scout, w0, pre_check, before, after) ==
    [r.w EXCEPT !.greedy =
        Append(@, [ scout |-> scout, before |-> before, after |-> after,
                    state_want |-> heap[scout].state_want,
                    checked |-> Checked(w0.h, heap[scout].parent, pre_check),
                    unresolved |-> r.unresolved, rc |-> r.rc,
                    unsatisfied |-> r.unsatisfied ])]

\* lines 137-166: r is what the call on pkg_scout returned
greedy_scout_checked(scouts, n, unsatisfied, pre_check, w0, r, d) ==
    IF greedy_ok(r)
    THEN greedy_loop(scouts, n + 1, pkg_vec_insert(unsatisfied, scouts[n]),
             pre_check,
             Probed(r, scouts[n], w0, pre_check, unsatisfied,
                    pkg_vec_insert(unsatisfied, scouts[n])), d)
    ELSE greedy_loop(scouts, n + 1, unsatisfied, pre_check,
             Probed(r, scouts[n], w0, pre_check, unsatisfied, unsatisfied), d)

\* lines 108-173: one scout of a GREEDY_DEPEND compound after the other
greedy_loop(scouts, n, unsatisfied, pre_check, w, d) ==
    IF n > Len(scouts) THEN [w |-> w, unsatisfied |-> unsatisfied]
    ELSE IF /\ heap[scouts[n]].state_want # "SW_INSTALL"
            /\ ~Checked(w.h, heap[scouts[n]].parent, pre_check)
            /\ ~is_pkg_in_pkg_vec(unsatisfied, scouts[n])
    THEN greedy_scout_checked(scouts, n, unsatisfied, pre_check, w,
             pkg_hash_fetch_unsatisfied_dependencies(scouts[n], <<>>,
                                                     pre_check, w, d + 1),
             d)
    ELSE greedy_loop(scouts, n + 1, unsatisfied, pre_check, w, d)

\* lines 184-195: r is the candidate returned for the j-th possibility
installed_candidate(cd, j, r, d) ==
    IF r.pkg # 0
       /\ pkg_installed_and_constraint_satisfied(heap[r.pkg], cd.possibilities[j])
    THEN [found |-> TRUE, w |-> r.w]
    ELSE installed_loop(cd, j + 1, r.w, d)

\* lines 175-197: is a possibility met by an installed package?
installed_loop(cd, j, w, d) ==
    IF j > Len(cd.possibilities) THEN [found |-> FALSE, w |-> w]
    ELSE installed_candidate(cd, j,
             pkg_hash_fetch_best_installation_candidate(
                 cd.possibilities[j].pkg,
                 "pkg_installed_and_constraint_satisfied",
                 cd.possibilities[j], TRUE, w, d),
             d)

\* lines 208-234: r is the candidate returned for the j-th possibility
uninstalled_candidate(cd, j, r, d) ==
    LET satisfying_pkg ==
            IF r.pkg # 0 /\ pkg_constraint_satisfied(heap[r.pkg],
                                                     cd.possibilities[j])
            THEN r.pkg ELSE 0
    IN  IF /\ satisfying_pkg # 0
           /\ cd.type \in {"RECOMMEND", "SUGGEST"}
           /\ heap[satisfying_pkg].state_want \in {"SW_DEINSTALL", "SW_PURGE"}
        THEN uninstalled_loop(cd, j + 1, r.w, d)
        ELSE IF satisfying_pkg # 0 THEN [pkg |-> satisfying_pkg, w |-> r.w]
        ELSE uninstalled_loop(cd, j + 1, r.w, d)

\* lines 199-236: the first possibility some package can meet
uninstalled_loop(cd, j, w, d) ==
    IF j > Len(cd.possibilities) THEN [pkg |-> 0, w |-> w]
    ELSE uninstalled_candidate(cd, j,
             pkg_hash_fetch_best_installation_candidate(
                 cd.possibilities[j].pkg, "pkg_constraint_satisfied",
                 cd.possibilities[j], TRUE, w, d),
             d)

\* lines 172: after a GREEDY_DEPEND compound, on to the next dependency
after_greedy(p, i, the_lost, pre_check, g, d) ==
    foreach_dependency(p, i + 1, g.unsatisfied, the_lost, pre_check, g.w, d)

\* a resolver that explores the satisfier but forgets to schedule it
satisfier_dropped(p, i, satisfier_entry_pkg, the_lost, pre_check, r, d) ==
    foreach_dependency(p, i + 1, r.unsatisfied,
        merge_unresolved(the_lost, r.unresolved), pre_check, r.w, d)

\* lines 262-265: r is what the call on the satisfier returned
satisfier_checked(p, i, satisfier_entry_pkg, the_lost, pre_check, r, d) ==
    foreach_dependency(p, i + 1,
        pkg_vec_insert(r.unsatisfied, satisfier_entry_pkg),
        merge_unresolved(the_lost, r.unresolved),
        pre_check, r.w, d)

\* a resolver for which every unmet compound is an error
counts_always(compound_depend) == TRUE

\* may the i-th dependency of p enter the unresolved list?  (lines 242-244)
counts_as_unresolved(compound_depend) ==
    compound_depend.type \notin {"RECOMMEND", "SUGGEST"}

\* lines 238-271: un is what the search for an uninstalled satisfier found
decide_dependency(p, i, unsatisfied, the_lost, pre_check, un, d) ==
    IF un.pkg = 0
    THEN foreach_dependency(p, i + 1, unsatisfied,
             IF counts_as_unresolved(heap[p].depends[i])
             THEN add_unresolved_dep(p, the_lost, i) ELSE the_lost,
             pre_check, un.w, d)
    ELSE IF heap[p].depends[i].type = "SUGGEST"
    THEN foreach_dependency(p, i + 1, unsatisfied, the_lost, pre_check, un.w, d)
    ELSE IF un.pkg # p /\ ~is_pkg_in_pkg_vec(unsatisfied, un.pkg)
    THEN satisfier_checked(p, i, un.pkg, the_lost, pre_check,
             pkg_hash_fetch_unsatisfied_dependencies(un.pkg, unsatisfied,
                                                     pre_check, un.w, d + 1),
             d)
    ELSE foreach_dependency(p, i + 1, unsatisfied, the_lost, pre_check, un.w, d)

\* lines 198-199: inst is what the search for an installed satisfier found
after_installed(p, i, unsatisfied, the_lost, pre_check, inst, d) ==
    IF inst.found
    THEN foreach_dependency(p, i + 1, unsatisfied, the_lost, pre_check, inst.w, d)
    ELSE decide_dependency(p, i, unsatisfied, the_lost, pre_check,
             uninstalled_loop(heap[p].depends[i], 1, inst.w, d), d)

\* lines 101-276: the dependencies of p from the i-th on (i counts from 1)
foreach_dependency(p, i, unsatisfied, the_lost, pre_check, w, d) ==
    IF i > Len(heap[p].depends)
    THEN [ w |-> [w EXCEPT !.returns =
                      Append(@, [ rc |-> Len(unsatisfied),
                                  len |-> Len(unsatisfied) ])],
           unsatisfied |-> unsatisfied, unresolved |-> the_lost,
           rc |-> Len(unsatisfied) ]
    ELSE IF heap[p].depends[i].type = "GREEDY_DEPEND"
    THEN after_greedy(p, i, the_lost, pre_check,
             greedy_loop(GreedyScouts(w.h, heap[p].depends[i]), 1,
                         unsatisfied, pre_check, w, d),
             d)
    ELSE after_installed(p, i, unsatisfied, the_lost, pre_check,
             installed_loop(heap[p].depends[i], 1, w, d), d)

\* pkg_hash.c lines 264-275: r is what the pre-check call returned
check_unresolved_result(r) == [res |-> r.unresolved # <<>>, w |-> r.w]

\* pkg_hash.c lines 253-276
pkg_hash_check_unresolved(maybe, w, d) ==
    check_unresolved_result(
        pkg_hash_fetch_unsatisfied_dependencies(maybe, <<>>, TRUE, w, d + 1))

\* lines 382-387: c is what pkg_hash_check_unresolved(vec[j]) returned
maybe_checked(vec, j, matching_pkgs, matching_apkgs, c, d) ==
    IF ~c.res
    THEN versions_loop(vec, j + 1, pkg_vec_insert(matching_pkgs, vec[j]),
             abstract_pkg_vec_insert(matching_apkgs, heap[vec[j]].parent),
             c.w, d)
    ELSE versions_loop(vec, j + 1, matching_pkgs, matching_apkgs, c.w, d)

\* lines 364-393: the versions of one provider
versions_loop(vec, j, matching_pkgs, matching_apkgs, w, d) ==
    IF j > Len(vec)
    THEN [matching_pkgs |-> matching_pkgs, matching_apkgs |-> matching_apkgs, w |-> w]
    ELSE IF pkg_get_arch_priority(heap[vec[j]]) > 0
            /\ ~pkg_vec_contains(matching_pkgs, vec[j])
    THEN maybe_checked(vec, j, matching_pkgs, matching_apkgs,
                       pkg_hash_check_unresolved(vec[j], w, d), d)
    ELSE versions_loop(vec, j + 1, matching_pkgs, matching_apkgs, w, d)

\* lines 391-392: v is what the loop over the provider's versions left
provider_done(providers, i, veclen, wrong_arch_found, v, d) ==
    providers_loop(providers, i + 1, v.matching_pkgs, v.matching_apkgs,
        wrong_arch_found \/ (veclen > 0 /\ Len(v.matching_pkgs) < 1),
        v.w, d)

\* a loop over the providers that never looks at replaced_by
provider_kept(h, providers, i) == providers[i]

\* lines 329-356: the abstract whose versions stand for providers[i]:
\* itself, or its first replacer; "" when the replacer is a provider too
provider_or_replacement(h, providers, i) ==
    LET replaced_by == h[providers[i]].replaced_by
        replacement_apkg == IF Len(replaced_by) > 0 THEN replaced_by[1] ELSE ""
    IN  IF replacement_apkg # "" /\ replacement_apkg # providers[i]
        THEN IF abstract_pkg_vec_contains(providers, replacement_apkg)
             THEN "" ELSE replacement_apkg
        ELSE providers[i]

\* lines 328-394: one provider after the other
providers_loop(providers, i, matching_pkgs, matching_apkgs, wrong_arch_found, w, d) ==
    IF i > Len(providers)
    THEN [ matching_pkgs |-> matching_pkgs, matching_apkgs |-> matching_apkgs,
           wrong_arch_found |-> wrong_arch_found, w |-> w ]
    ELSE IF provider_or_replacement(w.h, providers, i) = ""
    THEN providers_loop(providers, i + 1, matching_pkgs, matching_apkgs,
                        wrong_arch_found, w, d)
    ELSE provider_done(providers, i,
             Len(w.h[provider_or_replacement(w.h, providers, i)].pkgs),
             wrong_arch_found,
             versions_loop(w.h[provider_or_replacement(w.h, providers, i)].pkgs,
                           1, matching_pkgs, matching_apkgs, w, d),
             d)

\* lines 302-304: NULL is returned before any provider is looked at
NoCandidate(w) ==
    [pkg |-> 0, w |-> w, diag |-> FALSE, matching_pkgs |-> << >>, nmatching |-> 0]

\* lines 396-522: g is what the loop over the providers left; diag tells
\* whether the ERROR of lines 397-400 was written
candidate_of(apkg, fcn, cdata, quiet, g) ==
    IF Len(g.matching_pkgs) < 1
    THEN [ pkg |-> 0, w |-> g.w, diag |-> g.wrong_arch_found,
           matching_pkgs |-> << >>, nmatching |-> 0 ]
    ELSE [ pkg |-> choose_candidate(g.w.h, apkg, fcn, cdata, quiet,
                                    g.matching_pkgs, Len(g.matching_apkgs)),
           w |-> g.w, diag |-> FALSE,
           matching_pkgs |-> IF Len(g.matching_pkgs) > 1
                             THEN pkg_vec_sort(g.matching_pkgs)
                             ELSE g.matching_pkgs,
           nmatching |-> Len(g.matching_apkgs) ]

\* lines 278-522; an abstract that is not in the hash stands for apkg = NULL
pkg_hash_fetch_best_installation_candidate(apkg, fcn, cdata, quiet, w, d) ==
    IF apkg \notin DOMAIN w.h THEN NoCandidate(w)
    ELSE IF Len(w.h[apkg].provided_by) = 0
    THEN NoCandidate(w)
    ELSE candidate_of(apkg, fcn, cdata, quiet,
             providers_loop(w.h[apkg].provided_by, 1, <<>>, <<>>, FALSE, w, d))

pkg_hash_fetch_best_installation_candidate_by_name(name, w) ==
    IF name \notin DOMAIN w.h THEN NoCandidate(w)
    ELSE pkg_hash_fetch_best_installation_candidate(
             name, "pkg_name_constraint_fcn", name, FALSE, w, 0)


-----------------------------------------------------------------------------
(* pkg_depends.c: pkg_hash_fetch_conflicts. *)

\* the pairs (possible_satisfier, pkg_scout) the loops of lines 330-368
\* visit, in order, for the package record pkg in the hash h
ConflictScouts(pkg, h) ==
    Concat([ i \in 1..Len(pkg.conflicts) |->
        Concat([ j \in 1..Len(pkg.conflicts[i].possibilities) |->
            [ k \in 1..Len(h[pkg.conflicts[i].possibilities[j].pkg].pkgs) |->
                [ possible_satisfier |-> pkg.conflicts[i].possibilities[j],
                  pkg_scout |-> h[pkg.conflicts[i].possibilities[j].pkg].pkgs[k] ] ] ]) ])

\* lines 354-363 for the n-th pair on
RECURSIVE conflicts_loop(_, _, _, _)
conflicts_loop(pkg, scouts, n, installed_conflicts) ==
    IF n > Len(scouts) THEN installed_conflicts
    ELSE LET pkg_scout == scouts[n].pkg_scout
         IN  IF /\ \/ heap[pkg_scout].state_status = "SS_INSTALLED"
                   \/ heap[pkg_scout].state_want = "SW_INSTALL"
                /\ version_constraints_satisfied(scouts[n].possible_satisfier,
                                                 heap[pkg_scout])
                /\ ~is_pkg_a_replaces(heap[pkg_scout], pkg)
                /\ ~is_pkg_in_pkg_vec(installed_conflicts, pkg_scout)
             THEN conflicts_loop(pkg, scouts, n + 1,
                                 pkg_vec_insert(installed_conflicts, pkg_scout))
             ELSE conflicts_loop(pkg, scouts, n + 1, installed_conflicts)

\* the vector returned; <<>> is the NULL the function returns for none
pkg_hash_fetch_conflicts(p, h) ==
    IF heap[p].parent = "" THEN <<>>
    ELSE IF heap[p].conflicts = <<>> THEN <<>>
    ELSE conflicts_loop(heap[p], ConflictScouts(heap[p], h), 1, <<>>)


-----------------------------------------------------------------------------
(* The files the loader reads.  A source of stanzas is a feed list         *)
(* (is_status_file = 0, read with the state_flags its caller passes) or a  *)
(* status file (is_status_file = 1, read with SF_NEED_DETAIL).             *)

Head3(n, v, arch) == <<PackageL(n), VersionL(v), ArchitectureL(arch)>>

Feed(lines) ==
    [lines |-> lines, is_status_file |-> FALSE, state_flags |-> {"SF_NEED_DETAIL"}]

PlainFeed(lines) ==
    [lines |-> lines, is_status_file |-> FALSE, state_flags |-> {}]

StatusFile(lines) ==
    [lines |-> lines, is_status_file |-> TRUE, state_flags |-> {"SF_NEED_DETAIL"}]

Plain(n) == <<Atom(n, "", 0)>>

\* the stanzas the model's files hold
Catalogue ==
    << \* a and b depend on each other
       Feed(Head3("a", 1, "all") \o <<DepL("Depends", <<Plain("b")>>)>>),
       Feed(Head3("b", 1, "all") \o <<DepL("Depends", <<Plain("a")>>)>>),
       \* two versions of b, one of them installed and held
       PlainFeed(Head3("b", 1, "all")),
       Feed(Head3("b", 2, "all")),
       StatusFile(Head3("b", 1, "all")
                  \o <<StatusL("SW_INSTALL", {"SF_HOLD"}, "SS_INSTALLED")>>),
       \* versioned dependencies on b
       Feed(Head3("a", 1, "all")
            \o <<DepL("Depends", << <<Atom("b", ">=", 2)>> >>)>>),
       Feed(Head3("a", 1, "all")
            \o <<DepL("Depends", << <<Atom("b", "<<", 2)>> >>)>>),
       \* a virtual name and its provider
       Feed(Head3("a", 1, "all") \o <<DepL("Depends", <<Plain("v")>>)>>),
       Feed(Head3("c", 1, "mips") \o <<NamesL("Provides", <<"v">>)>>),
       \* the weak kinds, and a hard dependency nothing can meet
       Feed(Head3("a", 2, "all")
            \o << DepL("Pre-Depends", <<Plain("b")>>),
                  DepL("Recommends", <<Plain("m")>>),
                  DepL("Suggests", <<Plain("v")>>) >>),
       Feed(Head3("a", 2, "all")
            \o <<DepL("Depends", << <<Atom("m", "", 0), Atom("b", "=", 3)>> >>)>>),
       Feed(Head3("a", 1, "all") \o <<DepL("Depends", << <<Star("b")>> >>)>>),
       \* Replaces and Conflicts, in both orders and alone
       Feed(Head3("c", 1, "all")
            \o << NamesL("Replaces", <<"a">>),
                  DepL("Conflicts", <<Plain("a")>>) >>),
       Feed(Head3("c", 1, "all")
            \o << DepL("Conflicts", <<Plain("a")>>),
                  NamesL("Replaces", <<"a">>) >>),
       Feed(Head3("c", 2, "all") \o <<NamesL("Replaces", <<"b">>)>>),
       \* conflicts with a constraint, and with alternatives
       Feed(Head3("c", 2, "all")
            \o <<DepL("Conflicts",
                      << Plain("m"),
                         <<Atom("b", "<<", 1), Atom("a", ">=", 2)>> >>)>>),
       StatusFile(Head3("a", 1, "all")
                  \o <<StatusL("SW_INSTALL", {}, "SS_INSTALLED")>>),
       \* two more providers of the virtual name, one sorting before c
       \* and one after it
       Feed(Head3("b", 1, "mips") \o <<NamesL("Provides", <<"v">>)>>),
       Feed(Head3("m", 1, "mips") \o <<NamesL("Provides", <<"v">>)>>),
       \* a replacer that provides what it replaces
       Feed(Head3("c", 2, "mips")
            \o << DepL("Conflicts", <<Plain("a")>>),
                  NamesL("Replaces", <<"a">>),
                  NamesL("Provides", <<"a">>) >>),
       \* c reaches the cycle of a and b from outside
       Feed(Head3("c", 1, "all") \o <<DepL("Depends", <<Plain("b")>>)>>),
       \* a version of b that needs a name no feed may have
       Feed(Head3("b", 2, "all") \o <<DepL("Depends", <<Plain("m")>>)>>),
       \* stanzas the loader drops: no supported architecture, no name
       Feed(Head3("m", 1, "sparc") \o <<NamesL("Provides", <<"v">>)>>),
       Feed(<<VersionL(1), ArchitectureL("all")>>) >>

\* no offline root configured, no file owned; a string is the sequence of
\* its characters
NoConf == [offline_root |-> << >>, file_hash |-> << >>]

\* res before any resolver call
NoRes ==
    [ op |-> "none", arg |-> 0, name |-> "", pre_check |-> FALSE,
      clean |-> TRUE, pkg |-> 0, unsatisfied |-> <<>>, unresolved |-> <<>>,
      conflicts |-> <<>>, rc |-> 0, ovf |-> FALSE,
      op_token |-> "", satisfied |-> FALSE,
      str |-> "", parsed |-> << >>,
      once |-> pkg_new, twice |-> pkg_new, aborted |-> FALSE,
      failed |-> FALSE, passes |-> 0, diag |-> FALSE,
      file_name |-> << >>, old_owning_pkg |-> 0, flagged |-> {},
      matching_pkgs |-> << >>, nmatching |-> 0, quiet |-> FALSE, fcn |-> "",
      returns |-> << >>, greedy |-> << >>, counted |-> << >>,
      cdata |-> [pkg |-> "", constraint |-> "NONE", version |-> 0] ]

\* no abstract carries a traversal mark
MarksClear(h) ==
    \A n \in DOMAIN h :
        ~h[n].dependencies_checked /\ ~h[n].pre_dependencies_checked

\* pkg_hash_init, before anything is loaded
Init ==
    /\ hash = << >>
    /\ heap = << >>
    /\ nloaded = 0
    /\ opkg_cli_argv \in {<< >>, <<"c">>}
    /\ conf = NoConf
    /\ installed_files = << >>
    /\ res = NoRes

\* one turn of the loop of pkg_hash_add_from_file, on the k-th stanza
LoadStanza(k) ==
    /\ res.op = "none"
    /\ nloaded < MaxPkgs
    /\ LET s == Catalogue[k]
           r == add_from_file_stanza(hash, heap, s.lines, s.is_status_file,
                                     s.state_flags)
       IN  /\ hash' = r.h
           /\ heap' = r.hp
    /\ nloaded' = nloaded + 1
    /\ UNCHANGED <<opkg_cli_argv, conf, installed_files, res>>

\* what a call of pkg_hash_fetch_unsatisfied_dependencies left behind
Returned(r, entry) ==
    /\ hash' = r.w.h
    /\ res' = [entry EXCEPT !.clean = MarksClear(hash),
                            !.unsatisfied = r.unsatisfied,
                            !.unresolved = r.unresolved,
                            !.rc = r.rc, !.ovf = r.w.ovf,
                            !.returns = r.w.returns, !.greedy = r.w.greedy]

\* a caller asks for the unsatisfied dependencies of the package p
QueryUnsatisfied(p, pre_check) ==
    /\ res.op = "none"
    /\ Returned(pkg_hash_fetch_unsatisfied_dependencies(
                    p, <<>>, pre_check, World(hash), 0),
                [NoRes EXCEPT !.op = "fetch_unsatisfied", !.arg = p,
                              !.pre_check = pre_check])
    /\ UNCHANGED <<heap, nloaded, opkg_cli_argv, conf, installed_files>>

\* what a call of pkg_hash_fetch_best_installation_candidate_by_name left
Candidate(r, entry) ==
    /\ hash' = r.w.h
    /\ res' = [entry EXCEPT !.clean = MarksClear(hash), !.pkg = r.pkg,
                            !.ovf = r.w.ovf, !.diag = r.diag,
                            !.matching_pkgs = r.matching_pkgs,
                            !.nmatching = r.nmatching]

\* a caller asks for the best installation candidate for a name
QueryBestByName(name) ==
    /\ res.op = "none"
    /\ Candidate(pkg_hash_fetch_best_installation_candidate_by_name(
                     name, World(hash)),
                 [NoRes EXCEPT !.op = "best_by_name", !.name = name])
    /\ UNCHANGED <<heap, nloaded, opkg_cli_argv, conf, installed_files>>

\* a caller asks for the installed conflicts of the package p
QueryConflicts(p) ==
    /\ res.op = "none"
    /\ res' = [NoRes EXCEPT !.op = "fetch_conflicts", !.arg = p,
                   !.clean = MarksClear(hash),
                   !.conflicts = pkg_hash_fetch_conflicts(p, hash)]
    /\ UNCHANGED <<hash, heap, nloaded, opkg_cli_argv, conf, installed_files>>

Next ==
    \/ \E k \in 1..Len(Catalogue) : LoadStanza(k)
    \/ \E p \in 1..Len(heap) : \E pre_check \in BOOLEAN :
           QueryUnsatisfied(p, pre_check)
    \/ \E name \in DOMAIN hash : QueryBestByName(name)
    \/ \E p \in 1..Len(heap) : QueryConflicts(p)

Spec == Init /\ [][Next]_vars

-----------------------------------------------------------------------------
(* The best-candidate selector alone, as the resolver calls it: with the  *)
(* predicate pkg_constraint_satisfied and an atom, quiet or not, over an  *)
(* index in which the host has marked packages as provided by hand.       *)

\* the atoms the selector is queried with
QueryAtoms(apkg) == { [pkg |-> apkg, constraint |-> "NONE", version |-> 0] }

\* packages the host marks as provided by hand
MaxByHand == 1

\* the host marks the package p, given as a file, as provided by hand
ProvideByHand(p) ==
    /\ res.op = "none"
    /\ ~heap[p].provided_by_hand
    /\ Cardinality({ q \in 1..Len(heap) : heap[q].provided_by_hand }) < MaxByHand
    /\ heap' = [heap EXCEPT ![p].provided_by_hand = TRUE]
    /\ UNCHANGED <<hash, nloaded, opkg_cli_argv, conf, installed_files, res>>

\* a caller asks for the best installation candidate for an atom
QueryBest(cdata, quiet) ==
    /\ res.op = "none"
    /\ Candidate(pkg_hash_fetch_best_installation_candidate(
                     cdata.pkg, "pkg_constraint_satisfied", cdata, quiet,
                     World(hash), 0),
                 [NoRes EXCEPT !.op = "best", !.name = cdata.pkg,
                               !.fcn = "pkg_constraint_satisfied",
                               !.cdata = cdata, !.quiet = quiet])
    /\ UNCHANGED <<heap, nloaded, opkg_cli_argv, conf, installed_files>>

NextBC ==
    \/ \E k \in 1..Len(Catalogue) : LoadStanza(k)
    \/ \E p \in 1..Len(heap) : ProvideByHand(p)
    \/ \E name \in DOMAIN hash : QueryBestByName(name)
    \/ \E name \in DOMAIN hash : \E cdata \in QueryAtoms(name) :
       \E quiet \in BOOLEAN : QueryBest(cdata, quiet)

SpecBC == Init /\ [][NextBC]_vars


-----------------------------------------------------------------------------
(* A second specification, for the constraint evaluator alone: one        *)
(* version of b is in the index, and an atom "b (OP VERSION)" is parsed    *)
(* and evaluated against it.                                               *)

\* versions run from 1 to MaxVer
MaxVer == 4

OpTokens == {"<<", "<=", "=", ">=", ">>", "<", ">"}

Loaded(r) == hash = r.h /\ heap = r.hp

InitVC ==
    /\ \E v \in 1..MaxVer :
           Loaded(add_from_file_stanza(<< >>, << >>, Head3("b", v, "all"),
                                       FALSE, {"SF_NEED_DETAIL"}))
    /\ nloaded = 1
    /\ opkg_cli_argv = << >>
    /\ conf = NoConf
    /\ installed_files = << >>
    /\ res = NoRes

\* the atom is read by parseDepends and put to version_constraints_satisfied
Evaluated(p, op, depends) ==
    res' = [NoRes EXCEPT !.op = "constraint", !.arg = p, !.op_token = op,
                         !.cdata = depends,
                         !.satisfied = version_constraints_satisfied(depends, heap[p])]

CheckConstraint(p, op, ver) ==
    /\ res.op = "none"
    /\ Evaluated(p, op,
           parseDepends(hash, <<Atom(heap[p].name, op, ver)>>, "DEPEND")
               .cd.possibilities[1])
    /\ UNCHANGED <<hash, heap, nloaded, opkg_cli_argv, conf, installed_files>>

NextVC ==
    \E p \in 1..Len(heap) :
        \/ CheckConstraint(p, "", 0)
        \/ \E op \in OpTokens : \E ver \in 1..MaxVer : CheckConstraint(p, op, ver)

SpecVC == InitVC /\ [][NextVC]_vars

-----------------------------------------------------------------------------
(* A third specification, for the dependency pretty-printer: a package    *)
(* with one Depends compound is in the index; the compound is printed by   *)
(* pkg_depend_str and the print is read back by parseDepends.              *)

\* the operator as it stands in the text constraint_to_str writes: the
\* characters before the blank
WrittenToken(str) ==
    IF str = "< " THEN "<"
    ELSE IF str = "<= " THEN "<="
    ELSE IF str = "= " THEN "="
    ELSE IF str = ">= " THEN ">="
    ELSE IF str = "> " THEN ">"
    ELSE ""

\* the text pkg_depend_str writes for the possibilities, cut into atoms the
\* way parseDepends cuts it: NAME, and "(" OP VERSION ")" when the
\* possibility has a version
WrittenAtoms(poss) ==
    [ i \in 1..Len(poss) |->
        IF poss[i].version # 0
        THEN Atom(poss[i].pkg, WrittenToken(constraint_to_str(poss[i].constraint)),
                  poss[i].version)
        ELSE Atom(poss[i].pkg, "", 0) ]

\* the atoms a Depends line of the model may hold
DependAtoms ==
    { Atom(n, "", 0) : n \in {"b", "c"} }
    \cup { Atom(n, op, ver) : n \in {"b", "c"}, op \in OpTokens \cup {""},
                              ver \in 1..MaxVer }

\* the compounds: one atom, or two
DependItems ==
    { <<x>> : x \in DependAtoms } \cup { <<x, y>> : x, y \in DependAtoms }

DependFields == {"Depends", "Pre-Depends", "Recommends", "Suggests"}

InitRT ==
    /\ \E item \in DependItems : \E f \in DependFields :
           Loaded(add_from_file_stanza(<< >>, << >>,
                      Head3("a", 1, "all") \o <<DepL(f, <<item>>)>>,
                      FALSE, {"SF_NEED_DETAIL"}))
    /\ nloaded = 1
    /\ opkg_cli_argv = << >>
    /\ conf = NoConf
    /\ installed_files = << >>
    /\ res = NoRes

\* what printing the compound and reading the print back gave
Printed(p, idx, str, cd) ==
    res' = [NoRes EXCEPT !.op = "depend_str", !.arg = p, !.rc = idx,
                         !.str = str, !.parsed = cd]

\* the idx-th dependency of p is printed and the print parsed as a
\* compound of the same type
PrintAndParse(p, idx) ==
    /\ res.op = "none"
    /\ Printed(p, idx, pkg_depend_str(heap[p], idx),
               parseDepends(hash, WrittenAtoms(heap[p].depends[idx].possibilities),
                            heap[p].depends[idx].type).cd)
    /\ UNCHANGED <<hash, heap, nloaded, opkg_cli_argv, conf, installed_files>>

NextRT ==
    \E p \in 1..Len(heap) : \E idx \in 1..Len(heap[p].depends) :
        PrintAndParse(p, idx)

SpecRT == InitRT /\ [][NextRT]_vars

-----------------------------------------------------------------------------
(* A fourth specification, for the field parser alone: the lines of one   *)
(* stanza are fed to pkg_parse_line, and then fed again into the same      *)
(* package record.                                                         *)

\* the stanzas fed: those of the files, and stanzas with one dependency
\* line of one single-atom compound
StanzaTexts ==
    { Catalogue[k].lines : k \in 1..Len(Catalogue) }
    \cup { Head3("a", 1, "all") \o <<DepL(f, << <<x>> >>)>> :
              f \in DependFields \cup {"Conflicts"}, x \in DependAtoms }

\* parse_providelist on a record whose provides list is already set:
\* init_providelist (lines 605-616) steps its pointer to the end of the
\* list while it counts and returns the stepped pointer, which
\* parse_providelist hands to xrealloc (line 637) and writes through
\* (lines 652-655): the behaviour is undefined
providelist_undefined(pkg, lines) ==
    /\ pkg.provides # << >>
    /\ \E i \in 1..Len(lines) : lines[i].f = "Provides"

\* what the second feeding may leave when its behaviour is undefined: the
\* run is aborted by the allocator, or it goes on with a provides list
\* that was extended in place, or with one that lost its entries
UndefinedOutcomes(pkg) ==
    { [pkg |-> pkg, aborted |-> TRUE],
      [pkg |-> pkg, aborted |-> FALSE],
      [pkg |-> [pkg EXCEPT !.provides = << >>], aborted |-> FALSE] }

FedOutcomes(once, twice, lines) ==
    IF providelist_undefined(once.pkg, lines)
    THEN UndefinedOutcomes(twice.pkg)
    ELSE { [pkg |-> twice.pkg, aborted |-> FALSE] }

\* once and twice are what the first and the second feeding returned
Fed(once, twice, lines) ==
    \E o \in FedOutcomes(once, twice, lines) :
        /\ res' = [NoRes EXCEPT !.op = "feed_twice", !.once = once.pkg,
                                !.twice = o.pkg, !.aborted = o.aborted]
        /\ hash' = twice.h

FedOnce(once, lines) == Fed(once, parse_stanza(once.pkg, once.h, lines), lines)

\* the lines are fed into a new record that carries state_flags, twice
FeedTwice(lines, state_flags) ==
    /\ res.op = "none"
    /\ FedOnce(parse_stanza([pkg_new EXCEPT !.state_flag = state_flags],
                            hash, lines), lines)
    /\ UNCHANGED <<heap, nloaded, opkg_cli_argv, conf, installed_files>>

NextPL ==
    \E lines \in StanzaTexts : \E state_flags \in {{}, {"SF_NEED_DETAIL"}} :
        FeedTwice(lines, state_flags)

SpecPL == Init /\ [][NextPL]_vars

-----------------------------------------------------------------------------
(* The loaders as their callers drive them: conf->pkg_dest_list and        *)
(* conf->pkg_src_list are lists of the files below.                        *)

\* calls of the loaders the model follows
MaxLoads == 2

Read(lines) == [lines |-> lines, ret |-> 0]

\* the parser meets a fatal stream error after these lines
Broken(lines) == [lines |-> lines, ret |-> -1]

FileOf(reads) == [exists |-> TRUE, opens |-> TRUE, reads |-> reads]

Missing == [exists |-> FALSE, opens |-> FALSE, reads |-> << >>]

Unreadable == [exists |-> TRUE, opens |-> FALSE, reads |-> << >>]

StatusFiles ==
    { FileOf(<< Read(Head3("a", 1, "all")
                     \o << DepL("Depends", <<Plain("b")>>),
                           StatusL("SW_INSTALL", {}, "SS_INSTALLED") >>) >>),
      FileOf(<< Read(Head3("c", 1, "mips")
                     \o << NamesL("Provides", <<"v">>),
                           StatusL("SW_INSTALL", {}, "SS_INSTALLED") >>) >>),
      FileOf(<< Read(Head3("a", 2, "all")
                     \o << DepL("Conflicts", <<Plain("m")>>),
                           NamesL("Replaces", <<"c">>) >>),
                Broken(Head3("b", 1, "all")) >>),
      Unreadable, Missing }

ListFiles ==
    { FileOf(<< Read(Head3("c", 1, "all")
                     \o <<DepL("Depends", <<Plain("m")>>)>>),
                Read(Head3("b", 1, "all")
                     \o <<DepL("Depends", <<Plain("c")>>)>>),
                Read(Head3("m", 1, "all")
                     \o <<DepL("Conflicts", <<Plain("v")>>)>>) >>),
      FileOf(<< Read(Head3("b", 2, "all")),
                Broken(<<VersionL(1)>>),
                Read(Head3("m", 2, "all")) >>),
      FileOf(<< Read(Head3("b", 1, "all") \o <<NamesL("Replaces", <<"m">>)>>),
                Broken(Head3("m", 1, "all")) >>),
      Unreadable, Missing }

\* the lists of one or two of the files of S
Lists(S) == { <<f>> : f \in S } \cup { <<f, g>> : f \in S, g \in S }

\* what a loader left behind
LoaderReturned(r, entry) ==
    /\ hash' = r.h
    /\ heap' = r.hp
    /\ nloaded' = nloaded + 1
    /\ res' = [entry EXCEPT !.rc = r.ret, !.failed = r.err]
    /\ UNCHANGED <<opkg_cli_argv, conf, installed_files>>

AddFromFile(file, is_status_file, state_flags) ==
    /\ nloaded < MaxLoads
    /\ LoaderReturned(pkg_hash_add_from_file(hash, heap, file, is_status_file,
                                     state_flags),
              [NoRes EXCEPT !.op = "add_from_file"])

LoadFeeds(pkg_src_list, state_flags) ==
    /\ nloaded < MaxLoads
    /\ LoaderReturned(pkg_hash_load_feeds(hash, heap, pkg_src_list, state_flags),
              [NoRes EXCEPT !.op = "load_feeds"])

LoadStatusFiles(pkg_dest_list) ==
    /\ nloaded < MaxLoads
    /\ LoaderReturned(pkg_hash_load_status_files(hash, heap, pkg_dest_list),
              [NoRes EXCEPT !.op = "load_status_files"])

LoadedDetails(r) ==
    LoaderReturned(r, [NoRes EXCEPT !.op = "load_package_details",
                            !.passes = r.passes, !.ovf = r.ovf,
                            !.counted = r.counted])

LoadPackageDetails(pkg_src_list) ==
    /\ nloaded < MaxLoads
    /\ LoadedDetails(pkg_hash_load_package_details(hash, heap, pkg_src_list))

NextLD ==
    \/ \E file \in StatusFiles \cup ListFiles :
       \E is_status_file \in BOOLEAN :
       \E state_flags \in {{}, {"SF_NEED_DETAIL"}} :
           AddFromFile(file, is_status_file, state_flags)
    \/ \E pkg_src_list \in Lists(ListFiles) :
       \E state_flags \in {{}, {"SF_NEED_DETAIL"}} :
           LoadFeeds(pkg_src_list, state_flags)
    \/ \E pkg_dest_list \in Lists(StatusFiles) :
           LoadStatusFiles(pkg_dest_list)
    \/ \E pkg_src_list \in Lists(ListFiles) :
           LoadPackageDetails(pkg_src_list)

SpecLD == Init /\ [][NextLD]_vars

-----------------------------------------------------------------------------
(* pkg_hash.c: the file-owner hash.  A file name is the sequence of its   *)
(* characters.  installed_files[p] is the list pkg_get_installed_files    *)
(* yields for the package p, as the set of its entries.                   *)

\* lines 727-738; an offline_root of << >> stands for NULL
strip_offline_root(file_name) ==
    IF /\ conf.offline_root # << >>
       /\ Len(file_name) >= Len(conf.offline_root)
       /\ SubSeq(file_name, 1, Len(conf.offline_root)) = conf.offline_root
    THEN SubSeq(file_name, Len(conf.offline_root) + 1, Len(file_name))
    ELSE file_name

\* lines 746-750; 0 stands for NULL
file_hash_get_file_owner(file_name) ==
    IF strip_offline_root(file_name) \in DOMAIN conf.file_hash
    THEN conf.file_hash[strip_offline_root(file_name)]
    ELSE 0

\* lines 764-773: the previous owner loses the entry, both are flagged
owner_replaced(key, old_owning_pkg, owning_pkg) ==
    IF old_owning_pkg = 0
    THEN [installed_files |-> installed_files, hp |-> heap]
    ELSE [ installed_files |->
               [installed_files EXCEPT ![old_owning_pkg] = @ \ {key}],
           hp |-> [ p \in 1..Len(heap) |->
                      IF p \in {old_owning_pkg, owning_pkg}
                      THEN [heap[p] EXCEPT
                                !.state_flag = @ \cup {"SF_FILELIST_CHANGED"}]
                      ELSE heap[p] ] ]

\* lines 752-774
file_hash_set_file_owner(file_name, owning_pkg) ==
    IF file_name[Len(file_name)] = "/"
    THEN [ file_hash |-> conf.file_hash, old_owning_pkg |-> 0,
           installed_files |-> installed_files, hp |-> heap ]
    ELSE [ file_hash |->
               [ k \in DOMAIN conf.file_hash \cup {strip_offline_root(file_name)} |->
                   IF k = strip_offline_root(file_name) THEN owning_pkg
                   ELSE conf.file_hash[k] ],
           old_owning_pkg |-> file_hash_get_file_owner(file_name),
           installed_files |->
               owner_replaced(strip_offline_root(file_name),
                              file_hash_get_file_owner(file_name),
                              owning_pkg).installed_files,
           hp |-> owner_replaced(strip_offline_root(file_name),
                                 file_hash_get_file_owner(file_name),
                                 owning_pkg).hp ]

\* the file names the callers pass: /x, /r/x, /r/r/x and the directory /x/
FileNames ==
    { <<"/", "x">>, <<"/", "r", "/", "x">>,
      <<"/", "r", "/", "r", "/", "x">>, <<"/", "x", "/">> }

\* two packages are linked; each has an installed-files list, and an
\* offline root /r is configured or none is
InitFO ==
    /\ \E first \in {add_from_file_stanza(<< >>, << >>, Head3("a", 1, "all"),
                                          FALSE, {"SF_NEED_DETAIL"})} :
           Loaded(add_from_file_stanza(first.h, first.hp,
                      Head3("b", 1, "all")
                      \o <<StatusL("SW_INSTALL", {}, "SS_INSTALLED")>>,
                      TRUE, {"SF_NEED_DETAIL"}))
    /\ nloaded = 2
    /\ opkg_cli_argv = << >>
    /\ conf \in { [NoConf EXCEPT !.offline_root = root] :
                     root \in {<< >>, <<"/", "r">>} }
    /\ installed_files \in
           [1..2 -> SUBSET {<<"/", "x">>, <<"/", "r", "/", "x">>}]
    /\ res = NoRes

\* what a call of file_hash_set_file_owner left behind
OwnerSet(r, entry) ==
    /\ conf' = [conf EXCEPT !.file_hash = r.file_hash]
    /\ installed_files' = r.installed_files
    /\ heap' = r.hp
    /\ res' = [entry EXCEPT
                  !.old_owning_pkg = r.old_owning_pkg,
                  !.flagged = { p \in 1..Len(heap) :
                                  r.hp[p].state_flag # heap[p].state_flag }]

SetFileOwner(file_name, owning_pkg) ==
    /\ OwnerSet(file_hash_set_file_owner(file_name, owning_pkg),
                [NoRes EXCEPT !.op = "set_file_owner", !.arg = owning_pkg,
                              !.file_name = file_name])
    /\ UNCHANGED <<hash, nloaded, opkg_cli_argv>>

NextFO ==
    \E file_name \in FileNames : \E owning_pkg \in 1..Len(heap) :
        SetFileOwner(file_name, owning_pkg)

SpecFO == InitFO /\ [][NextFO]_vars


-----------------------------------------------------------------------------
(* Properties. *)

\* the linked versions of the abstract n
VersionsOf(n) == IF n \in DOMAIN hash THEN hash[n].pkgs ELSE << >>

\* the package q has exactly one dependency: a DEPEND compound with the
\* single possibility n
DependsOnlyOn(q, n) ==
    /\ Len(heap[q].depends) = 1
    /\ heap[q].depends[1].type = "DEPEND"
    /\ Len(heap[q].depends[1].possibilities) = 1
    /\ heap[q].depends[1].possibilities[1].pkg = n

\* the index holds two packages, each depending on the other and on
\* nothing else, without version constraint
TwoCycle ==
    /\ Len(heap) = 2
    /\ heap[1].name # heap[2].name
    /\ DependsOnlyOn(1, heap[2].name)
    /\ DependsOnlyOn(2, heap[1].name)
    /\ heap[1].depends[1].possibilities[1].constraint = "NONE"
    /\ heap[2].depends[1].possibilities[1].constraint = "NONE"

\* C1: a top-level pkg_hash_fetch_unsatisfied_dependencies started with all
\* marks clear returns, nested candidate probing included, without its calls
\* ever nesting deeper than MaxDepth, whatever the index (cycles included);
\* on the cycle of two available packages it returns an empty unresolved list.
C1_Terminates ==
    (res.op = "fetch_unsatisfied" /\ res.clean) =>
        /\ ~res.ovf
        /\ TwoCycle => res.unresolved = << >>

\* a call on a member of the two-package cycle has returned, having
\* scheduled both packages
C1_Witness ==
    /\ res.op = "fetch_unsatisfied"
    /\ res.clean
    /\ TwoCycle
    /\ ~res.ovf
    /\ res.rc = 2

\* the names a Replaces (or Provides) line of `lines' lists
NamesIn(lines, f) ==
    UNION { { lines[i].names[j] : j \in 1..Len(lines[i].names) } :
              i \in { i \in 1..Len(lines) : lines[i].f = f } }

\* the names the atoms of the Conflicts lines of `lines' cite
ConflictNamesIn(lines) ==
    UNION { UNION { { lines[i].deps[c][j].name : j \in 1..Len(lines[i].deps[c]) } :
                      c \in 1..Len(lines[i].deps) } :
              i \in { i \in 1..Len(lines) : lines[i].f = "Conflicts" } }

\* the name on the Package line of `lines'
PackageNameIn(lines) ==
    LET S == { i \in 1..Len(lines) : lines[i].f = "Package" }
    IN  IF S = {} THEN "" ELSE lines[CHOOSE i \in S : TRUE].name

\* what C2 asks of the index after the k-th stanza has been read
ReplacedByAsDeclared(k) ==
    LET lines == Catalogue[k].lines
    IN  \A X \in NamesIn(lines, "Replaces") :
            IF X \in ConflictNamesIn(lines)
            THEN abstract_pkg_vec_contains(hash'[X].replaced_by,
                                           PackageNameIn(lines))
            ELSE ~abstract_pkg_vec_contains(hash'[X].replaced_by,
                                            PackageNameIn(lines))

\* C2: once the stanza of a package P has been read, X.replaced_by holds
\* P's abstract if the stanza declares both Replaces: X and Conflicts: X,
\* in either order of the two lines, and does not hold it if the stanza
\* declares Replaces: X alone.
C2_ReplacedBy ==
    [][\A k \in 1..Len(Catalogue) : LoadStanza(k) => ReplacedByAsDeclared(k)]_vars

\* the kinds of compound buildDependedUponBy is claimed to index
AllKinds == {"DEPEND", "PREDEPEND", "RECOMMEND", "SUGGEST", "GREEDY_DEPEND"}

\* every atom of a compound of one of `kinds', of every linked package,
\* points at an abstract that lists the package's parent in depended_upon_by
DependedUponByCovers(kinds) ==
    \A q \in 1..Len(heap) :
        \A ij \in AtomsOf(heap[q].depends) :
            heap[q].depends[ij[1]].type \in kinds =>
                abstract_pkg_vec_contains(
                    hash[heap[q].depends[ij[1]].possibilities[ij[2]].pkg]
                        .depended_upon_by,
                    heap[q].parent)

\* C3 as stated: after hash_insert_pkg(P), the target of every atom of P's
\* depends list, of whatever kind (DEPEND, PREDEPEND, RECOMMEND, SUGGEST,
\* GREEDY_DEPEND), lists P's parent in depended_upon_by.
C3_AllKinds == DependedUponByCovers(AllKinds)

\* C3, amended: the same for the atoms of the DEPEND, PREDEPEND and
\* RECOMMEND compounds; SUGGEST and GREEDY_DEPEND compounds are not indexed.
C3_HardKinds == DependedUponByCovers({"DEPEND", "PREDEPEND", "RECOMMEND"})

\* a linked package with a PREDEPEND and a RECOMMEND compound, both indexed,
\* and a SUGGEST compound
C3_Witness ==
    /\ C3_HardKinds
    /\ \E q \in 1..Len(heap) :
          /\ \E i \in 1..Len(heap[q].depends) : heap[q].depends[i].type = "PREDEPEND"
          /\ \E i \in 1..Len(heap[q].depends) : heap[q].depends[i].type = "RECOMMEND"
          /\ \E i \in 1..Len(heap[q].depends) : heap[q].depends[i].type = "SUGGEST"

\* C4: in every state the loader can reach, an abstract with a linked
\* version is in its own provided_by.
C4_SelfProvides ==
    \A n \in DOMAIN hash :
        hash[n].pkgs # << >> => abstract_pkg_vec_contains(hash[n].provided_by, n)

\* an abstract with a linked version that provides itself and another name
C4_Witness ==
    \E n \in DOMAIN hash :
        /\ hash[n].pkgs # << >>
        /\ abstract_pkg_vec_contains(hash[n].provided_by, n)
        /\ \E x \in DOMAIN hash \ {n} :
               abstract_pkg_vec_contains(hash[x].provided_by, n)


\* the version pv stands in the relation the constraint names to the
\* version av: the meaning of a constraint, strict for EARLIER and LATER
Stands(constraint, pv, av) ==
    CASE constraint = "NONE" -> TRUE
      [] constraint = "EQUAL" -> pv = av
      [] constraint = "EARLIER" -> pv < av
      [] constraint = "EARLIER_EQUAL" -> pv <= av
      [] constraint = "LATER" -> pv > av
      [] constraint = "LATER_EQUAL" -> pv >= av

\* the package record pkg meets the atom depend
Meets(depend, pkg) == Stands(depend.constraint, pkg.version, depend.version)

Installed(q) == heap[q].state_status \in {"SS_INSTALLED", "SS_UNPACKED"}

\* the set C5 describes: the versions of the abstracts P's conflicts cite
\* that are installed or wanted, meet the atom's constraint and are not
\* replaced by P
ConflictSet(p) ==
    { s \in 1..Len(heap) :
        /\ \E ij \in AtomsOf(heap[p].conflicts) :
              LET possibility == heap[p].conflicts[ij[1]].possibilities[ij[2]]
              IN  /\ pkg_vec_contains(VersionsOf(possibility.pkg), s)
                  /\ Meets(possibility, heap[s])
        /\ \/ heap[s].state_status = "SS_INSTALLED"
           \/ heap[s].state_want = "SW_INSTALL"
        /\ ~SeqContains(heap[p].replaces, heap[s].name) }

NoDuplicates(vec) ==
    \A i \in 1..Len(vec) : \A j \in 1..Len(vec) : vec[i] = vec[j] => i = j

\* C5: pkg_hash_fetch_conflicts(P) returns, without duplicates, exactly the
\* versions S of the abstracts cited by the possibilities of P's conflict
\* compounds (each compound with its own possibilities) such that S is
\* installed or wanted installed, S satisfies the possibility's version
\* constraint, and S is not among P's replaces.
C5_Conflicts ==
    res.op = "fetch_conflicts" =>
        /\ NoDuplicates(res.conflicts)
        /\ { res.conflicts[i] : i \in 1..Len(res.conflicts) } = ConflictSet(res.arg)

\* C6: no entry of the unresolved list pkg_hash_fetch_unsatisfied_dependencies
\* returns, whether added by the call itself or merged in from a nested
\* call, is the rendering of a RECOMMEND or SUGGEST compound.
C6_NoWeakUnresolved ==
    res.op = "fetch_unsatisfied" =>
        \A i \in 1..Len(res.unresolved) :
            /\ res.unresolved[i].str =
                   pkg_depend_str(heap[res.unresolved[i].pkg], res.unresolved[i].ndx)
            /\ heap[res.unresolved[i].pkg].depends[res.unresolved[i].ndx].type
                   \notin {"RECOMMEND", "SUGGEST"}

\* the root has a RECOMMEND compound nothing provides and another compound
\* nothing provides; only the latter is reported
C6_Witness ==
    /\ res.op = "fetch_unsatisfied"
    /\ C6_NoWeakUnresolved
    /\ Len(res.unresolved) = 1
    /\ res.unresolved[1].pkg = res.arg
    /\ \E i \in 1..Len(heap[res.arg].depends) :
          /\ heap[res.arg].depends[i].type = "RECOMMEND"
          /\ \A j \in 1..Len(heap[res.arg].depends[i].possibilities) :
                hash[heap[res.arg].depends[i].possibilities[j].pkg].provided_by = << >>

\* the relation an operator token names, the one-character forms read as
\* "<=" and ">="
StandsToken(op, pv, av) ==
    CASE op = "" -> TRUE
      [] op = "=" -> pv = av
      [] op = "<<" -> pv < av
      [] op \in {"<=", "<"} -> pv <= av
      [] op = ">>" -> pv > av
      [] op \in {">=", ">"} -> pv >= av

\* C7: an atom (op, version) is satisfied by a package exactly when the
\* package's version stands in the relation op names to the atom's version:
\* always without constraint, "=" on equality only, "<=" and ">=" on
\* less-or-equal and greater-or-equal, "<<" and ">>" on strictly earlier
\* and strictly later only.
C7_Constraint ==
    res.op = "constraint" =>
        (res.satisfied <=>
            StandsToken(res.op_token, heap[res.arg].version, res.cdata.version))

\* the only atom of the only dependency of q
OnlyAtom(q) == heap[q].depends[1].possibilities[1]

\* scenario S1 at the package p: p depends on B alone, with a version
\* constraint; B has several versions, none with dependencies, B is neither
\* provided by another name nor replaced; no installed version of B meets
\* the constraint and some version does
LinearInstall(p) ==
    /\ Len(heap[p].depends) = 1
    /\ DependsOnlyOn(p, OnlyAtom(p).pkg)
    /\ OnlyAtom(p).constraint # "NONE"
    /\ OnlyAtom(p).pkg # heap[p].name
    /\ hash[OnlyAtom(p).pkg].provided_by = <<OnlyAtom(p).pkg>>
    /\ hash[OnlyAtom(p).pkg].replaced_by = << >>
    /\ Len(VersionsOf(OnlyAtom(p).pkg)) >= 2
    /\ \A q \in 1..Len(heap) :
          heap[q].name = OnlyAtom(p).pkg =>
              /\ heap[q].depends = << >>
              /\ ~(Installed(q) /\ Meets(OnlyAtom(p), heap[q]))
    /\ \E q \in 1..Len(heap) :
          heap[q].name = OnlyAtom(p).pkg /\ Meets(OnlyAtom(p), heap[q])

\* q is the highest version of B that meets the constraint of p
HighestMeeting(p, q) ==
    /\ heap[q].name = OnlyAtom(p).pkg
    /\ Meets(OnlyAtom(p), heap[q])
    /\ \A q2 \in 1..Len(heap) :
          (heap[q2].name = OnlyAtom(p).pkg /\ Meets(OnlyAtom(p), heap[q2]))
              => heap[q2].version <= heap[q].version

\* C8: in scenario S1, the candidate fetched by A's name is a version of A,
\* and pkg_hash_fetch_unsatisfied_dependencies(A) returns exactly one
\* package, the highest version of B that satisfies the constraint, with
\* nothing unresolved.
C8_LinearInstall ==
    /\ (res.op = "fetch_unsatisfied" /\ res.clean /\ LinearInstall(res.arg)) =>
          /\ Len(res.unsatisfied) = 1
          /\ HighestMeeting(res.arg, res.unsatisfied[1])
          /\ res.unresolved = << >>
    /\ (res.op = "best_by_name" /\ res.clean
          /\ \E p \in 1..Len(heap) : heap[p].name = res.name /\ LinearInstall(p)) =>
          /\ res.pkg # 0
          /\ heap[res.pkg].name = res.name


\* scenario S2 at the packages p and c: p depends on a name X alone,
\* without constraint; X has no version of its own; c is the one package
\* that declares Provides: X, and it is not installed
ProviderScenario(p, c) ==
    /\ c # p
    /\ Len(heap[p].depends) = 1
    /\ DependsOnlyOn(p, OnlyAtom(p).pkg)
    /\ OnlyAtom(p).constraint = "NONE"
    /\ VersionsOf(OnlyAtom(p).pkg) = << >>
    /\ heap[c].name # OnlyAtom(p).pkg
    /\ \A q \in 1..Len(heap) :
          SeqContains(heap[q].provides, OnlyAtom(p).pkg) <=> q = c
    /\ heap[c].state_status = "SS_NOT_INSTALLED"
    /\ heap[c].state_want # "SW_INSTALL"

\* C9 as stated: in scenario S2, pkg_hash_fetch_unsatisfied_dependencies(D)
\* returns the vector holding exactly C, and nothing unresolved.
C9_Provider ==
    (res.op = "fetch_unsatisfied" /\ res.clean) =>
        \A c \in 1..Len(heap) :
            ProviderScenario(res.arg, c) =>
                res.unsatisfied = <<c>> /\ res.unresolved = << >>

\* C9, amended: the same when, moreover, C is the only version of its
\* name, has no dependencies and is not replaced.
C9_SoleVersion ==
    (res.op = "fetch_unsatisfied" /\ res.clean) =>
        \A c \in 1..Len(heap) :
            ( /\ ProviderScenario(res.arg, c)
              /\ VersionsOf(heap[c].name) = <<c>>
              /\ heap[c].depends = << >>
              /\ hash[heap[c].name].replaced_by = << >> ) =>
                res.unsatisfied = <<c>> /\ res.unresolved = << >>

\* the dependencies of D have been fetched in scenario S2, C being the
\* only version of its name, and C has been scheduled
C9_Witness ==
    /\ res.op = "fetch_unsatisfied"
    /\ res.clean
    /\ \E c \in 1..Len(heap) :
          /\ ProviderScenario(res.arg, c)
          /\ VersionsOf(heap[c].name) = <<c>>
          /\ heap[c].depends = << >>
          /\ res.unsatisfied = <<c>>

\* scenario S5 at the name G and its versions g1 and g2: G has these two
\* versions and no other provider or replacer; g1 is the lower version and
\* is held, g2 carries no flag but the loader's SF_NEED_DETAIL; neither has
\* dependencies
HoldScenario(G, g1, g2) ==
    /\ G \in DOMAIN hash
    /\ {hash[G].pkgs[i] : i \in 1..Len(hash[G].pkgs)} = {g1, g2}
    /\ Len(hash[G].pkgs) = 2
    /\ hash[G].provided_by = <<G>>
    /\ hash[G].replaced_by = << >>
    /\ heap[g1].version < heap[g2].version
    /\ "SF_HOLD" \in heap[g1].state_flag
    /\ heap[g2].state_flag \subseteq {"SF_NEED_DETAIL"}
    /\ heap[g1].depends = << >>
    /\ heap[g2].depends = << >>

\* C10 as stated: in scenario S5 the candidate fetched by the name G is the
\* held version G 1.0.
C10_HoldWins ==
    (res.op = "best_by_name" /\ res.clean) =>
        \A g1 \in 1..Len(heap) : \A g2 \in 1..Len(heap) :
            HoldScenario(res.name, g1, g2) => res.pkg = g1

\* C10, amended: in scenario S5 the candidate fetched by the name G is the
\* unflagged higher version G 2.0: both versions pass the name predicate
\* with the same score, and the later one in sort order is kept.
C10_LaterWins ==
    (res.op = "best_by_name" /\ res.clean) =>
        \A g1 \in 1..Len(heap) : \A g2 \in 1..Len(heap) :
            HoldScenario(res.name, g1, g2) => res.pkg = g2

\* the candidate for G has been fetched by name in scenario S5
C10_Witness ==
    /\ res.op = "best_by_name"
    /\ res.clean
    /\ \E g1 \in 1..Len(heap) : \E g2 \in 1..Len(heap) :
          HoldScenario(res.name, g1, g2) /\ res.pkg = g2


\* scenario S6 at the virtual name V and its providers h and k: V has no
\* version of its own and is provided by the abstracts of h and k alone;
\* h and k are the only versions of their names, of the same architecture
\* priority, without dependencies, flags, replacers or installed status;
\* the command line names h's package and not k's
CliScenario(V, h, k) ==
    /\ V \in DOMAIN hash
    /\ VersionsOf(V) = << >>
    /\ h # k
    /\ heap[h].name # heap[k].name
    /\ Len(hash[V].provided_by) = 2
    /\ {hash[V].provided_by[i] : i \in 1..2} = {heap[h].name, heap[k].name}
    /\ hash[V].replaced_by = << >>
    /\ \A q \in {h, k} :
          /\ VersionsOf(heap[q].name) = <<q>>
          /\ SeqContains(heap[q].provides, V)
          /\ heap[q].depends = << >>
          /\ heap[q].state_flag \subseteq {"SF_NEED_DETAIL"}
          /\ heap[q].state_status = "SS_NOT_INSTALLED"
          /\ heap[q].state_want # "SW_INSTALL"
          /\ hash[heap[q].name].replaced_by = << >>
    /\ pkg_get_arch_priority(heap[h]) = pkg_get_arch_priority(heap[k])
    /\ SeqContains(opkg_cli_argv, heap[h].name)
    /\ ~SeqContains(opkg_cli_argv, heap[k].name)

\* C11 as stated: in scenario S6 the candidate fetched by the name V is H,
\* the provider named on the command line.
C11_ByName ==
    (res.op = "best_by_name" /\ res.clean) =>
        \A h \in 1..Len(heap) : \A k \in 1..Len(heap) :
            CliScenario(res.name, h, k) => res.pkg = h

\* C11, amended: in scenario S6 a package D whose one dependency is V,
\* without constraint, has H scheduled by
\* pkg_hash_fetch_unsatisfied_dependencies(D), whichever of H and K sorts
\* first: both providers pass the constraint predicate and H scores higher.
C11_Dependency ==
    (res.op = "fetch_unsatisfied" /\ res.clean) =>
        \A h \in 1..Len(heap) : \A k \in 1..Len(heap) :
            ( /\ DependsOnlyOn(res.arg, OnlyAtom(res.arg).pkg)
              /\ OnlyAtom(res.arg).constraint = "NONE"
              /\ CliScenario(OnlyAtom(res.arg).pkg, h, k) ) =>
                res.unsatisfied = <<h>> /\ res.unresolved = << >>

\* the dependencies of D have been fetched in scenario S6 with K sorting
\* after H, and H has been scheduled
C11_Witness ==
    /\ res.op = "fetch_unsatisfied"
    /\ res.clean
    /\ \E h \in 1..Len(heap) : \E k \in 1..Len(heap) :
          /\ DependsOnlyOn(res.arg, OnlyAtom(res.arg).pkg)
          /\ OnlyAtom(res.arg).constraint = "NONE"
          /\ CliScenario(OnlyAtom(res.arg).pkg, h, k)
          /\ strcmp(heap[h].name, heap[k].name) < 0
          /\ res.unsatisfied = <<h>>


\* C12: the compound read back from the text pkg_depend_str prints for a
\* compound d is d itself, whatever d's possibilities and operators.
C12_RoundTrip ==
    res.op = "depend_str" => res.parsed = heap[res.arg].depends[res.rc]

\* the same for the compounds without a strict operator
C12_NonStrict ==
    ( /\ res.op = "depend_str"
      /\ \A i \in 1..Len(heap[res.arg].depends[res.rc].possibilities) :
            heap[res.arg].depends[res.rc].possibilities[i].constraint
                \notin {"EARLIER", "LATER"} ) =>
        res.parsed = heap[res.arg].depends[res.rc]


\* the fields of a package record that C13 compares
RecordFields(pkg) ==
    [ name |-> pkg.name, version |-> pkg.version,
      architecture |-> pkg.architecture,
      state_want |-> pkg.state_want, state_flag |-> pkg.state_flag,
      state_status |-> pkg.state_status,
      depends |-> pkg.depends, conflicts |-> pkg.conflicts,
      provides |-> pkg.provides, replaces |-> pkg.replaces ]

\* C13: a package record into which the lines of a stanza were fed twice
\* equals, field by field, the record into which they were fed once.
C13_Idempotent ==
    res.op = "feed_twice" =>
        ~res.aborted /\ RecordFields(res.twice) = RecordFields(res.once)

\* the same for the stanzas without dependency, conflict and Provides
\* lines: name, version, architecture, status and replaces are overwritten
\* with the same values
C13_Overwritten ==
    ( /\ res.op = "feed_twice"
      /\ res.once.depends = << >>
      /\ res.once.conflicts = << >>
      /\ Len(res.once.provides) <= 1 ) =>
        ~res.aborted /\ RecordFields(res.twice) = RecordFields(res.once)


\* an abstract without its two traversal marks
Unmarked(apkg) ==
    [apkg EXCEPT !.dependencies_checked = FALSE,
                 !.pre_dependencies_checked = FALSE]

\* the step is a call of one of the three resolver queries
IsQuery ==
    /\ res.op = "none"
    /\ res'.op \in {"fetch_unsatisfied", "best_by_name", "fetch_conflicts"}

\* C14: a call of pkg_hash_fetch_best_installation_candidate_by_name,
\* pkg_hash_fetch_unsatisfied_dependencies or pkg_hash_fetch_conflicts
\* leaves every package record as it was, creates no abstract, and leaves
\* every abstract as it was but for dependencies_checked and
\* pre_dependencies_checked.
C14_OnlyMarks ==
    [][IsQuery =>
          /\ heap' = heap
          /\ DOMAIN hash' = DOMAIN hash
          /\ \A n \in DOMAIN hash : Unmarked(hash'[n]) = Unmarked(hash[n])]_vars

\* a query has returned and has set a mark
C14_Witness ==
    /\ res.op \in {"fetch_unsatisfied", "best_by_name"}
    /\ res.clean
    /\ ~MarksClear(hash)
    /\ \E q \in 1..Len(heap) : heap[q].state_status = "SS_INSTALLED"


\* C15: when a stream a loader drives cannot be opened, or the parser
\* reports a fatal stream error on it, the loader returns -1; this holds of
\* pkg_hash_add_from_file, pkg_hash_load_feeds, pkg_hash_load_status_files
\* and pkg_hash_load_package_details.
LoaderOps == {"add_from_file", "load_feeds", "load_status_files", "load_package_details"}

C15_FailureReturned == res.op \in LoaderOps /\ res.failed => res.rc = -1

\* C15, the part the code keeps: the two list loaders return -1 whenever
\* a file they found cannot be opened or breaks on a named stanza, and no
\* loader returns -1 without such a failure.
C15_FailureOnly == res.op \in LoaderOps /\ res.rc = -1 => res.failed


\* the versions the loop over the providers of apkg looks at
VersionsLookedAt(h, apkg) ==
    { p \in 1..Len(heap) :
        \E i \in 1..Len(h[apkg].provided_by) :
            /\ provider_or_replacement(h, h[apkg].provided_by, i) # ""
            /\ pkg_vec_contains(
                   h[provider_or_replacement(h, h[apkg].provided_by, i)].pkgs, p) }

\* C16: the best-candidate query writes the 'incompatible with the
\* architectures configured' ERROR only when it returns none and at least
\* one version of a provider was excluded for an architecture priority of
\* 0; it does not write it when versions were excluded only for
\* unresolvable dependencies.
C16_DiagnosticOnlyForArch ==
    res.op = "best_by_name" /\ res.diag =>
        /\ res.pkg = 0
        /\ \E p \in VersionsLookedAt(hash, res.name) :
               pkg_get_arch_priority(heap[p]) = 0

\* C16, the part the code keeps: the ERROR is written only when the query
\* returns none, and then whenever a provider has versions
C16_DiagnosticOnlyForNone ==
    res.op = "best_by_name" =>
        (res.diag <=> res.pkg = 0 /\ VersionsLookedAt(hash, res.name) # {})


\* the abstracts flagged SF_NEED_DETAIL
NeedDetail(h) == { n \in DOMAIN h : "SF_NEED_DETAIL" \in h[n].state_flag }

\* the packages linked in the index that are flagged SF_NEED_DETAIL
NeedDetailPkgs == { p \in 1..Len(heap) : "SF_NEED_DETAIL" \in heap[p].state_flag }

\* the abstracts a package provides other than its own
DeclaredProvides(pkg) ==
    { pkg.provides[i] : i \in 1..Len(pkg.provides) } \ {pkg.name}

\* C17: when pkg_hash_load_package_details returns, every abstract that a
\* package flagged SF_NEED_DETAIL provides, depends on, conflicts with or
\* replaces is flagged SF_NEED_DETAIL too.
C17_Closed ==
    res.op = "load_package_details" =>
        \A p \in NeedDetailPkgs :
            /\ DeclaredProvides(heap[p]) \subseteq NeedDetail(hash)
            /\ Targets(heap[p].depends) \subseteq NeedDetail(hash)
            /\ Targets(heap[p].conflicts) \subseteq NeedDetail(hash)
            /\ { heap[p].replaces[i] : i \in 1..Len(heap[p].replaces) }
                   \subseteq NeedDetail(hash)

\* C17, the part the code keeps: the flag reaches the abstracts depended
\* on, conflicted with and replaced
C17_ClosedButProvides ==
    res.op = "load_package_details" =>
        \A p \in NeedDetailPkgs :
            /\ Targets(heap[p].depends) \subseteq NeedDetail(hash)
            /\ Targets(heap[p].conflicts) \subseteq NeedDetail(hash)
            /\ { heap[p].replaces[i] : i \in 1..Len(heap[p].replaces) }
                   \subseteq NeedDetail(hash)


\* a call of file_hash_set_file_owner on a path that is no directory has
\* just returned
OwnerJustSet ==
    res.op = "set_file_owner" /\ res.file_name[Len(res.file_name)] # "/"

\* C18: after set_file_owner(path, Q) on a path that is no directory and
\* is owned by P, file_owner returns Q for the path looked up with or
\* without the offline root before it, the path is no longer in P's
\* installed-files list, and P and Q carry SF_FILELIST_CHANGED; when the
\* path had no owner, no package's SF_FILELIST_CHANGED changes.
C18_SetFileOwner ==
    OwnerJustSet =>
        /\ file_hash_get_file_owner(res.file_name) = res.arg
        /\ file_hash_get_file_owner(strip_offline_root(res.file_name)) = res.arg
        /\ file_hash_get_file_owner(
               conf.offline_root \o strip_offline_root(res.file_name)) = res.arg
        /\ res.old_owning_pkg # 0 =>
               /\ strip_offline_root(res.file_name)
                      \notin installed_files[res.old_owning_pkg]
               /\ "SF_FILELIST_CHANGED" \in heap[res.old_owning_pkg].state_flag
               /\ "SF_FILELIST_CHANGED" \in heap[res.arg].state_flag
        /\ res.old_owning_pkg = 0 => res.flagged = {}

\* C18, the part the code keeps: everything but the lookup of the path
\* without the offline root
C18_SetFileOwnerPrefixed ==
    OwnerJustSet =>
        /\ file_hash_get_file_owner(res.file_name) = res.arg
        /\ file_hash_get_file_owner(
               conf.offline_root \o strip_offline_root(res.file_name)) = res.arg
        /\ res.old_owning_pkg # 0 =>
               /\ strip_offline_root(res.file_name)
                      \notin installed_files[res.old_owning_pkg]
               /\ "SF_FILELIST_CHANGED" \in heap[res.old_owning_pkg].state_flag
               /\ "SF_FILELIST_CHANGED" \in heap[res.arg].state_flag
        /\ res.old_owning_pkg = 0 => res.flagged = {}


\* the step is a call of the best-candidate query
IsBestByName == res.op = "none" /\ res'.op = "best_by_name"

\* C19: the best-candidate query leaves the traversal marks as it found
\* them: after it returns, pre_dependencies_checked and
\* dependencies_checked of every abstract are what they were before.
C19_MarksKept ==
    [][IsBestByName =>
          \A n \in DOMAIN hash :
              /\ hash'[n].pre_dependencies_checked = hash[n].pre_dependencies_checked
              /\ hash'[n].dependencies_checked = hash[n].dependencies_checked]_vars

\* C19, the part the code keeps: dependencies_checked is left as found
C19_DependMarksKept ==
    [][IsBestByName =>
          \A n \in DOMAIN hash :
              hash'[n].dependencies_checked = hash[n].dependencies_checked]_vars


\* the linked versions the index offers for an atom: versions of its
\* providers, or of what replaces them, of a supported architecture and
\* meeting the atom's constraint
Offered(h, depend) ==
    { q \in 1..Len(heap) :
        /\ pkg_get_arch_priority(heap[q]) > 0
        /\ version_constraints_satisfied(depend, heap[q])
        /\ \E i \in 1..Len(h[depend.pkg].provided_by) :
               \/ pkg_vec_contains(h[h[depend.pkg].provided_by[i]].pkgs, q)
               \/ \E k \in 1..Len(h[h[depend.pkg].provided_by[i]].replaced_by) :
                      pkg_vec_contains(
                          h[h[h[depend.pkg].provided_by[i]].replaced_by[k]].pkgs, q) }

\* every DEPEND and PREDEPEND compound of p has an offered version whose
\* own compounds have one in turn; a version already on the path counts
RECURSIVE Meetable(_, _, _)
Meetable(h, p, path) ==
    \A i \in 1..Len(heap[p].depends) :
        heap[p].depends[i].type \in {"DEPEND", "PREDEPEND"} =>
            \E j \in 1..Len(heap[p].depends[i].possibilities) :
                \E q \in Offered(h, heap[p].depends[i].possibilities[j]) :
                    q \in path \cup {p} \/ Meetable(h, q, path \cup {p})

\* C20: every package the best-candidate query returns has a non-zero
\* architecture priority and no DEPEND or PREDEPEND compound, directly or
\* through the packages that could meet its compounds, for which the index
\* offers no candidate.
C20_ReturnedMeetable ==
    res.op = "best_by_name" /\ res.pkg # 0 =>
        /\ pkg_get_arch_priority(heap[res.pkg]) > 0
        /\ Meetable(hash, res.pkg, {})

\* C20, the part the code keeps: what is returned has a non-zero
\* architecture priority, and when it is the only version of its name
\* each of its DEPEND and PREDEPEND compounds has an offered version
C20_ReturnedSupported ==
    res.op = "best_by_name" /\ res.pkg # 0 =>
        /\ pkg_get_arch_priority(heap[res.pkg]) > 0
        /\ (\A q \in 1..Len(heap) : q # res.pkg => heap[q].name # heap[res.pkg].name)
               => \A i \in 1..Len(heap[res.pkg].depends) :
                      heap[res.pkg].depends[i].type \in {"DEPEND", "PREDEPEND"} =>
                          \E k \in 1..Len(heap[res.pkg].depends[i].possibilities) :
                              Offered(hash, heap[res.pkg].depends[i].possibilities[k]) # {}

\* a call of the best-candidate selector has just returned
BestReturned == res.op \in {"best", "best_by_name"}

\* the match p passes the predicate the selector was called with
PassesPred(p) ==
    IF res.op = "best_by_name" THEN pkg_name_constraint_fcn(heap[p], res.name)
    ELSE pkg_constraint_satisfied(heap[p], res.cdata)

\* the places of the sorted match vector whose match passes the predicate
Passing == { i \in 1..Len(res.matching_pkgs) : PassesPred(res.matching_pkgs[i]) }

\* the places of the passing matches of the highest score
TopScored ==
    { i \in Passing :
        \A k \in Passing : Score(heap[res.matching_pkgs[k]], res.name)
                             <= Score(heap[res.matching_pkgs[i]], res.name) }

\* no match was provided by hand
NoneByHand == \A i \in 1..Len(res.matching_pkgs) : ~heap[res.matching_pkgs[i]].provided_by_hand

\* C21 as stated: when two or more matches passing the predicate reach the
\* same highest score, the one that comes earlier in the sorted order is
\* the score winner (and so is what the selector returns).
C21_EarlierWins ==
    BestReturned /\ NoneByHand /\ Cardinality(TopScored) >= 2 =>
        res.pkg = res.matching_pkgs[CHOOSE i \in TopScored : \A k \in TopScored : i <= k]

\* C21, amended: among the matches passing the predicate that reach the
\* same highest score, the one that comes last in the sorted order is the
\* score winner, when no match is provided by hand.
C21_LaterWinsTie ==
    BestReturned /\ NoneByHand /\ Cardinality(TopScored) >= 2 =>
        res.pkg = res.matching_pkgs[CHOOSE i \in TopScored : \A k \in TopScored : k <= i]

\* two matches of different versions tie for the highest score
C21_Witness ==
    /\ BestReturned /\ NoneByHand /\ Cardinality(TopScored) >= 2
    /\ res.pkg = res.matching_pkgs[Len(res.matching_pkgs)]
    /\ res.pkg # res.matching_pkgs[1]


\* the places of the passing matches that were provided by hand
ByHand == { i \in Passing : heap[res.matching_pkgs[i]].provided_by_hand }

\* the first place of the non-empty set S of places
FirstOf(S) == CHOOSE i \in S : \A k \in S : i <= k

\* C22: the first match in sort order that passes the predicate and is
\* provided by hand is what the selector returns, whatever the scores of
\* the matches before and after it.
C22_ByHandReturned ==
    BestReturned /\ ByHand # {} => res.pkg = res.matching_pkgs[FirstOf(ByHand)]

\* C22, the part the code keeps: the first passing match provided by hand
\* is returned when no passing match before it has a higher score
C22_ByHandNotOutscored ==
    BestReturned /\ ByHand # {}
    /\ (\A k \in Passing :
           k < FirstOf(ByHand) =>
               Score(heap[res.matching_pkgs[k]], res.name)
                   <= Score(heap[res.matching_pkgs[FirstOf(ByHand)]], res.name))
    => res.pkg = res.matching_pkgs[FirstOf(ByHand)]


\* good_pkg_by_name as the scoring pass leaves it for the returned match
\* vector
ScoreWinner ==
    IF res.op = "best_by_name"
    THEN good_pkg_loop(res.matching_pkgs, 1, 0, 0, res.name,
                       "pkg_name_constraint_fcn", res.name)
    ELSE good_pkg_loop(res.matching_pkgs, 1, 0, 0, res.name, res.fcn, res.cdata)

\* the abstracts the matches belong to
MatchedAbstracts == { heap[res.matching_pkgs[i]].parent : i \in 1..Len(res.matching_pkgs) }

\* what the selector returns when `several' tells whether more than one
\* abstract matched: the first non-empty of score winner, held match,
\* match of an installed parent, match of the highest architecture
\* priority, last match; none when the first four are empty and several
\* abstracts matched
Precedence(several) ==
    IF ScoreWinner # 0 THEN ScoreWinner
    ELSE IF HeldPkg(res.matching_pkgs) # 0 THEN HeldPkg(res.matching_pkgs)
    ELSE IF LatestInstalledParent(hash, res.matching_pkgs) # 0
    THEN LatestInstalledParent(hash, res.matching_pkgs)
    ELSE IF several /\ ~res.quiet /\ PriorizedMatching(res.matching_pkgs) # 0
    THEN PriorizedMatching(res.matching_pkgs)
    ELSE IF several THEN 0
    ELSE res.matching_pkgs[Len(res.matching_pkgs)]

\* C23: with a non-empty match set the selector returns the first
\* non-empty of score winner, held or preferred match, match whose parent
\* is installed or unpacked, match of the highest architecture priority
\* (looked for only when the three before are empty, more than one
\* distinct abstract matched and quiet is false), last match in sort
\* order; it returns none exactly when none of the first four is set and
\* more than one distinct abstract matched.
C23_Precedence ==
    BestReturned /\ res.matching_pkgs # << >> =>
        res.pkg = Precedence(Cardinality(MatchedAbstracts) > 1)

\* C23, the part the code keeps: the same with `more than one match' in
\* the place of `more than one distinct abstract matched'
C23_PrecedenceByMatches ==
    BestReturned /\ res.matching_pkgs # << >> =>
        res.pkg = Precedence(Len(res.matching_pkgs) > 1)


\* the abstract that stands in for the provider P: its first replacer, or
\* P itself when nothing else replaces it
StandIn(P) ==
    IF hash[P].replaced_by # << >> /\ hash[P].replaced_by[1] # P
    THEN hash[P].replaced_by[1] ELSE P

\* the providers of the queried abstract
ProvidersOf(apkg) == { hash[apkg].provided_by[i] : i \in 1..Len(hash[apkg].provided_by) }

\* the versions that may enter the match set: those of the stand-in of a
\* provider, unless the stand-in is another abstract that is a provider
\* itself
MayEnter(apkg) ==
    { p \in 1..Len(heap) :
        \E P \in ProvidersOf(apkg) :
            /\ (StandIn(P) # P => StandIn(P) \notin ProvidersOf(apkg))
            /\ pkg_vec_contains(hash[StandIn(P)].pkgs, p) }

\* C24: a provider P whose first replacer is another abstract contributes
\* no version of its own to the match set: the versions of the replacer
\* are looked at in its place, unless the replacer is among the providers
\* already, in which case P contributes nothing; and no version is in the
\* match set twice.
C24_Replacers ==
    BestReturned /\ res.name \in DOMAIN hash =>
        /\ \A i \in 1..Len(res.matching_pkgs) : res.matching_pkgs[i] \in MayEnter(res.name)
        /\ \A p \in MayEnter(res.name) :
               heap[p].depends = << >> => pkg_vec_contains(res.matching_pkgs, p)
        /\ \A i, k \in 1..Len(res.matching_pkgs) :
               res.matching_pkgs[i] = res.matching_pkgs[k] => i = k

\* a provider was replaced by an abstract that is no provider, and a
\* version of the replacer is in the match set
C24_Witness ==
    /\ BestReturned /\ res.name \in DOMAIN hash
    /\ \E P \in ProvidersOf(res.name) :
           /\ StandIn(P) # P /\ StandIn(P) \notin ProvidersOf(res.name)
           /\ hash[P].pkgs # << >>
           /\ \E i \in 1..Len(res.matching_pkgs) :
                  heap[res.matching_pkgs[i]].parent = StandIn(P)


-----------------------------------------------------------------------------
(* The GREEDY_DEPEND branch of pkg_hash_fetch_unsatisfied_dependencies.    *)

\* the probes of the last query, nested ones included
GreedyProbes == { res.greedy[i] : i \in 1..Len(res.greedy) }

\* the probe put its scout into the vector
GreedyInserted(e) == e.after # e.before

\* every compound of p is a GREEDY_DEPEND none of whose names has a version
OnlyEmptyGreedy(p) ==
    /\ Len(heap[p].depends) > 0
    /\ \A i \in 1..Len(heap[p].depends) :
           /\ heap[p].depends[i].type = "GREEDY_DEPEND"
           /\ GreedyScouts(hash, heap[p].depends[i]) = << >>

\* C25: a GREEDY_DEPEND compound puts a version S into the unsatisfied
\* vector only if S's state_want is not SW_INSTALL, S's abstract was not
\* marked when the probe started, S was not in the vector, the probe of S
\* came back with nothing unresolved, and every package the probe returned
\* has state_want SW_INSTALL; what it puts in is S, at the end.  No entry of
\* the unresolved list (of the query or of a probe) comes from a
\* GREEDY_DEPEND compound, and a package whose compounds are all greedy
\* without a single candidate version gets an empty vector.
C25_Greedy ==
    (res.op = "fetch_unsatisfied") =>
        /\ \A e \in GreedyProbes :
               /\ GreedyInserted(e) =>
                      /\ e.after = Append(e.before, e.scout)
                      /\ e.state_want # "SW_INSTALL"
                      /\ ~e.checked
                      /\ ~is_pkg_in_pkg_vec(e.before, e.scout)
                      /\ e.unresolved = << >>
                      /\ \A m \in 1..Len(e.unsatisfied) :
                             heap[e.unsatisfied[m]].state_want = "SW_INSTALL"
               /\ \A m \in 1..Len(e.unresolved) :
                      heap[e.unresolved[m].pkg].depends[e.unresolved[m].ndx].type
                          # "GREEDY_DEPEND"
        /\ \A m \in 1..Len(res.unresolved) :
               heap[res.unresolved[m].pkg].depends[res.unresolved[m].ndx].type
                   # "GREEDY_DEPEND"
        /\ OnlyEmptyGreedy(res.arg) =>
               res.unsatisfied = << >> /\ res.unresolved = << >>

\* a probe put its scout in
C25_Witness ==
    res.op = "fetch_unsatisfied" /\ \E e \in GreedyProbes : GreedyInserted(e)

\* a probe found something unresolved and put nothing in
C25_WitnessUnresolved ==
    /\ res.op = "fetch_unsatisfied"
    /\ \E e \in GreedyProbes : ~GreedyInserted(e) /\ e.unresolved # << >>

\* a probe returned a package that is not wanted and put nothing in
C25_WitnessNotWanted ==
    /\ res.op = "fetch_unsatisfied"
    /\ \E e \in GreedyProbes :
           ~GreedyInserted(e) /\ e.unresolved = << >> /\ e.unsatisfied # << >>

\* a query on a package whose only compound is greedy and has no candidate
C25_WitnessNoCandidate ==
    res.op = "fetch_unsatisfied" /\ OnlyEmptyGreedy(res.arg)


-----------------------------------------------------------------------------
(* What pkg_hash_fetch_unsatisfied_dependencies returns.                   *)

\* the returns of the calls of the last query, the nested calls included
FetchReturns == { res.returns[i] : i \in 1..Len(res.returns) }

\* C26: every call of pkg_hash_fetch_unsatisfied_dependencies, the early
\* returns and the recursive calls on the caller's vector included, returns
\* the number of entries the unsatisfied vector holds when it returns.
C26_ReturnsLength ==
    (res.op = "fetch_unsatisfied") =>
        \A e \in FetchReturns : e.rc = e.len

\* what the calls do return: the length of the vector or, from the early
\* returns, 0; the top-level call, which starts on an empty vector, returns
\* the length of the vector it hands back.
C26_ReturnsLengthOrZero ==
    (res.op = "fetch_unsatisfied") =>
        /\ \A e \in FetchReturns : e.rc = e.len \/ e.rc = 0
        /\ res.rc = Len(res.unsatisfied)

\* a nested call returned early on a vector that held something
C26_EarlyOnNonEmpty ==
    /\ res.op = "fetch_unsatisfied"
    /\ \E e \in FetchReturns : e.rc = 0 /\ e.len > 0


-----------------------------------------------------------------------------
(* The loop of pkg_hash_load_package_details.                              *)

\* pkg_hash_load_package_details has returned
DetailsLoaded == res.op = "load_package_details"

\* the abstracts flagged SF_NEED_DETAIL that no stanza gave a version
CitedNowhere ==
    { n \in DOMAIN hash : /\ "SF_NEED_DETAIL" \in hash[n].state_flag
                          /\ hash[n].pkgs = << >> }

\* C27: pkg_hash_load_package_details comes to an end (within the passes the
\* model follows) whatever the feeds hold, also when a name that is cited
\* has a version in no feed; when it has returned, every abstract flagged
\* SF_NEED_DETAIL is flagged SF_MARKED; the last sweep counted nothing, and
\* no abstract was counted by two sweeps.
C27_LoopEnds ==
    DetailsLoaded =>
        /\ ~res.ovf
        /\ res.rc = 0
        /\ Len(res.counted) = res.passes
        /\ res.counted[res.passes] = {}
        /\ \A n \in DOMAIN hash :
               "SF_NEED_DETAIL" \in hash[n].state_flag
                   => "SF_MARKED" \in hash[n].state_flag
        /\ \A i \in 1..Len(res.counted) : \A j \in 1..Len(res.counted) :
               i # j => res.counted[i] \cap res.counted[j] = {}

\* the loop went round three times, two sweeps counted something, and a
\* cited name has no version
C27_Witness ==
    /\ DetailsLoaded
    /\ res.passes >= 3
    /\ res.counted[1] # {} /\ res.counted[2] # {}
    /\ CitedNowhere # {}


-----------------------------------------------------------------------------
(* The unsatisfied vector a top-level call hands back.                     *)

\* a top-level pkg_hash_fetch_unsatisfied_dependencies that started with
\* every mark clear has returned
FetchedClean == res.op = "fetch_unsatisfied" /\ res.clean

\* C28: the vector a top-level call on P, started with all marks clear,
\* hands back does not hold P.
C28_RootNotInVector ==
    FetchedClean => ~pkg_vec_contains(res.unsatisfied, res.arg)

\* C29: the vector of a top-level call started with an empty vector holds no
\* two entries of the same name, version and architecture.
C29_NoDuplicates ==
    FetchedClean =>
        \A i \in 1..Len(res.unsatisfied) : \A j \in 1..Len(res.unsatisfied) :
            i # j => ~is_pkg_in_pkg_vec(<<res.unsatisfied[i]>>, res.unsatisfied[j])


\* the packages the result of the last query selects: the root and the vector
Selected == {res.arg} \cup { res.unsatisfied[i] : i \in 1..Len(res.unsatisfied) }

\* the package q can stand for the possibility d: its abstract provides the
\* name d asks for (or replaces a provider of it) and q meets d's constraint
Supplies(q, d) ==
    /\ \E n \in ProvidersOf(d.pkg) :
           heap[q].parent = n \/ pkg_vec_contains(hash[n].replaced_by, heap[q].parent)
    /\ version_constraints_satisfied(d, heap[q])

\* the idx-th compound of S is met by what is installed, met by what the
\* result selects, or reported in the unresolved list
CompoundClosed(S, idx) ==
    \/ \E j \in 1..Len(heap[S].depends[idx].possibilities) :
       \E q \in 1..Len(heap) :
           /\ heap[q].state_status \in {"SS_INSTALLED", "SS_UNPACKED"}
           /\ Supplies(q, heap[S].depends[idx].possibilities[j])
    \/ \E j \in 1..Len(heap[S].depends[idx].possibilities) :
       \E q \in Selected :
           Supplies(q, heap[S].depends[idx].possibilities[j])
    \/ \E m \in 1..Len(res.unresolved) :
           res.unresolved[m].str = pkg_depend_str(heap[S], idx)

\* C30: after a top-level call with pre_check false that started with all
\* marks clear, every DEPEND and PREDEPEND compound of the root and of every
\* package in the unsatisfied vector is met by an installed or unpacked
\* package, met by the root or a package of the vector, or reported in the
\* unresolved list.
C30_DependencyClosed ==
    (FetchedClean /\ ~res.pre_check) =>
        \A S \in Selected : \A idx \in 1..Len(heap[S].depends) :
            heap[S].depends[idx].type \in {"DEPEND", "PREDEPEND"}
                => CompoundClosed(S, idx)

=============================================================================
